---- MODULE Spec2Model ----
(***************************************************************************)
(* Model of the three-tier detection core (enforcement/control_tower_v3.py *)
(* and enforcement/tier_router.py), of the detect endpoint that wraps it   *)
(* (api/routes/detection.py) and of the policy-driven harm index           *)
(* (signals/embeddings/harm_vector_db.py).                                 *)
(*                                                                         *)
(* Conventions.  A text is a sequence of one-character strings.  A         *)
(* confidence is an integer number of hundredths (0.95 is 95).  Python's   *)
(* None is the string "None"; should_allow is "True", "False" or "None".   *)
(* A raised exception is a record with raised |-> TRUE.                    *)
(***************************************************************************)
EXTENDS Integers, Sequences, FiniteSets, TLC

(***************************************************************************)
(* Characters and texts                                                    *)
(***************************************************************************)

\* str.strip() and the regex class \s: the whitespace characters of the model.
Whitespace == {" ", "\t", "\n", "\r", "\f"}

\* The NUL byte '\x00', written as a token.
NUL == "NUL"

\* c * n
Rep(c, n) == [i \in 1..n |-> c]

\* s * n for a sequence s
RepSeq(s, n) == [i \in 1..(n * Len(s)) |-> s[((i - 1) % Len(s)) + 1]]

\* re.IGNORECASE on the letters the attack signatures use.
LowerMap ==
    ("A" :> "a") @@ ("B" :> "b") @@ ("C" :> "c") @@ ("D" :> "d") @@ ("E" :> "e") @@
    ("F" :> "f") @@ ("I" :> "i") @@ ("J" :> "j") @@ ("L" :> "l") @@ ("M" :> "m") @@
    ("N" :> "n") @@ ("O" :> "o") @@ ("P" :> "p") @@ ("R" :> "r") @@ ("S" :> "s") @@
    ("T" :> "t") @@ ("U" :> "u") @@ ("V" :> "v") @@ ("W" :> "w") @@ ("X" :> "x")

Lower(c) == IF c \in DOMAIN LowerMap THEN LowerMap[c] ELSE c

\* The literal word w (lower case) occurs in text at position i, ignoring case.
MatchAt(text, w, i) ==
    /\ i >= 1
    /\ i + Len(w) - 1 <= Len(text)
    /\ \A k \in 1..Len(w) : Lower(text[i + k - 1]) = w[k]

\* re.search(literal, text, re.IGNORECASE)
Contains(text, w) == \E i \in 1..Len(text) : MatchAt(text, w, i)

\* re.search(a + '.*' + b, text, re.IGNORECASE): a, then any characters but a
\* newline, then b.
ContainsThen(text, a, b) ==
    \E i \in 1..Len(text) : \E j \in (i + Len(a))..Len(text) :
        /\ MatchAt(text, a, i)
        /\ MatchAt(text, b, j)
        /\ \A k \in (i + Len(a))..(j - 1) : text[k] # "\n"

\* len(text.strip())
StripFirst(text) ==
    IF \A i \in 1..Len(text) : text[i] \in Whitespace THEN Len(text) + 1
    ELSE CHOOSE i \in 1..Len(text) :
            /\ text[i] \notin Whitespace
            /\ \A k \in 1..(i - 1) : text[k] \in Whitespace

StripLast(text) ==
    IF \A i \in 1..Len(text) : text[i] \in Whitespace THEN Len(text)
    ELSE CHOOSE i \in 1..Len(text) :
            /\ text[i] \notin Whitespace
            /\ \A k \in (i + 1)..Len(text) : text[k] \in Whitespace

\* text.strip()
strip(text) == SubSeq(text, StripFirst(text), StripLast(text))

\* Counter(text).most_common(1)[0][1]
MostCommonCount(text) ==
    LET count(c) == Cardinality({i \in 1..Len(text) : text[i] = c})
        chars == {text[i] : i \in 1..Len(text)}
    IN  CHOOSE n \in {count(c) : c \in chars} : \A c \in chars : count(c) <= n

\* len(set(text))
UniqueChars(text) == Cardinality({text[i] : i \in 1..Len(text)})

\* re.search(r'(.)\1{n,}', text): n + 1 or more equal characters in a row,
\* none of them a newline.
HasRun(text, n) ==
    \E i \in 1..(Len(text) - n) :
        /\ text[i] # "\n"
        /\ \A k \in 1..n : text[i + k] = text[i]

(***************************************************************************)
(* contracts/failure_classes.py, and the result records of the tiers       *)
(***************************************************************************)

\* The members of the enum FailureClass, by value.
FailureClass ==
    {"fabricated_concept", "fabricated_fact", "dangerous_content",
     "missing_grounding", "domain_mismatch", "overconfidence",
     "hedging_excessive", "tone_issue", "formatting_issue"}

\* FailureClass.PROMPT_INJECTION, FailureClass.BIAS, ...: the attribute lookup
\* on the enum class succeeds for a member and raises AttributeError otherwise.
HasMember(value) == value \in FailureClass

\* The dict a tier returns.
TierResult(confidence, failure_class, method, should_allow, explanation) ==
    [raised |-> FALSE, error |-> "None", confidence |-> confidence,
     failure_class |-> failure_class, method |-> method,
     should_allow |-> should_allow, explanation |-> explanation]

\* An exception leaving a function instead of its result.
Raise(error) ==
    [raised |-> TRUE, error |-> error, confidence |-> 0, failure_class |-> "None",
     method |-> "None", should_allow |-> "None", explanation |-> ""]

(***************************************************************************)
(* is_pathological_input_early (control_tower_v3.py)                       *)
(***************************************************************************)

MinGateLen == 10
RepetitionLen == 50
RepetitionPct == 80
DiversityLen == 100
DiversityChars == 5
RunRepeats == 20
PathConfidence == 95
AttackConfidence == 90

\* attack_patterns, in order: each with its description.
SqlSelect(text) ==
    ContainsThen(text, <<"s","e","l","e","c","t"," ">>, <<" ","f","r","o","m">>)
SqlUnion(text) ==
    Contains(text, <<"u","n","i","o","n"," ","s","e","l","e","c","t">>)
SqlDrop(text) == Contains(text, <<"d","r","o","p"," ","t","a","b","l","e">>)
XssScript(text) ==
    \E i \in 1..Len(text) : \E j \in (i + 7)..Len(text) :
        MatchAt(text, <<"<","s","c","r","i","p","t">>, i) /\ text[j] = ">"
JsProtocol(text) ==
    Contains(text, <<"j","a","v","a","s","c","r","i","p","t",":">>)
PathTraversal(text) ==
    \E a \in {"\\", "/"} : \E b \in {"\\", "/"} :
        Contains(text, <<".", ".", a, ".", ".", b>>)
EtcPasswd(text) ==
    \E a \in {"\\", "/"} : Contains(text, <<"e","t","c",a,"p","a","s","s","w","d">>)
CmdExe(text) == Contains(text, <<"c","m","d",".","e","x","e">>)

AttackSignature(text) ==
    \/ SqlSelect(text) \/ SqlUnion(text) \/ SqlDrop(text) \/ XssScript(text)
    \/ JsProtocol(text) \/ PathTraversal(text) \/ EtcPasswd(text) \/ CmdExe(text)

\* Check 1: repetition_ratio = most_common_count / len(text) > 0.8
ExcessiveRepetition(text) ==
    /\ Len(text) > RepetitionLen
    /\ MostCommonCount(text) * 100 > RepetitionPct * Len(text)

\* Check 2
LowDiversity(text) ==
    /\ Len(text) > DiversityLen
    /\ UniqueChars(text) < DiversityChars

\* Check 3: re.search(r'(.)\1{20,}', text)
RepeatedChar(text) == HasRun(text, RunRepeats)

\* The tuple (is_pathological, explanation, confidence).
is_pathological_input_early(text) ==
    IF Len(text) = 0 \/ Len(text) < MinGateLen
    THEN [is_pathological |-> FALSE, reason |-> "", confidence |-> 0]
    ELSE IF ExcessiveRepetition(text)
    THEN [is_pathological |-> TRUE, reason |-> "Excessive repetition detected",
          confidence |-> PathConfidence]
    ELSE IF LowDiversity(text)
    THEN [is_pathological |-> TRUE, reason |-> "Low character diversity",
          confidence |-> PathConfidence]
    ELSE IF RepeatedChar(text)
    THEN [is_pathological |-> TRUE, reason |-> "Character repetition pattern detected",
          confidence |-> PathConfidence]
    ELSE IF AttackSignature(text)
    THEN [is_pathological |-> TRUE, reason |-> "Attack pattern detected",
          confidence |-> AttackConfidence]
    ELSE [is_pathological |-> FALSE, reason |-> "", confidence |-> 0]

(***************************************************************************)
(* Tier 1: ControlTowerV3._tier1_detect                                    *)
(***************************************************************************)

ShortLen == 3
RegexTruncLen == 500
DosLen == 10000
DosConfidence == 70
UncertainConfidence == 50

\* self.patterns: PatternLibrary.get_all_patterns().  A pattern without a
\* failure class is an allow-pattern.
patterns ==
    << [name |-> "cited_source", failure_class |-> "None", confidence |-> 90],
       [name |-> "hedged_claim", failure_class |-> "None", confidence |-> 60],
       [name |-> "dangerous_instructions", failure_class |-> "dangerous_content",
        confidence |-> 95],
       [name |-> "fabricated_statistic", failure_class |-> "fabricated_fact",
        confidence |-> 85],
       [name |-> "vague_grounding", failure_class |-> "missing_grounding",
        confidence |-> 25] >>

\* _safe_regex_search over the patterns: those whose search returns a match.
\* matching: the patterns whose regex matches the text.  With SIGALRM the
\* search runs under a 0.5 s timer: signal.signal raises ValueError outside
\* the main thread and "except Exception" returns None; a search the timer
\* interrupts (timed_out) returns None.
safe_regex_search(matching, sigalrm, main_thread, timed_out) ==
    IF ~sigalrm THEN matching
    ELSE IF ~main_thread THEN {}
    ELSE matching \ timed_out

\* The block-pattern kept by the second loop: a later match replaces the kept
\* one only with a strictly greater confidence.
BestBlock(hits) ==
    LET blocks == {i \in hits : patterns[i].failure_class # "None"}
    IN  CHOOSE i \in blocks :
            \A j \in blocks :
                \/ patterns[j].confidence < patterns[i].confidence
                \/ (patterns[j].confidence = patterns[i].confidence /\ i <= j)

\* hits: the patterns whose regex matches text[:500] (the searches that time
\* out or fail count as no match).
tier1_detect(text, hits) ==
    IF Len(text) = 0 \/ Len(strip(text)) < ShortLen
    THEN TierResult(UncertainConfidence, "None", "regex_skipped", "True",
                    "Text too short for analysis")
    ELSE LET gate == is_pathological_input_early(text) IN
    IF gate.is_pathological
    THEN IF HasMember("prompt_injection")
         THEN TierResult(gate.confidence, "prompt_injection", "regex_pathological",
                         "False", "Pathological input detected (early)")
         ELSE Raise("AttributeError: PROMPT_INJECTION")
    ELSE IF Len(text) > DosLen
    THEN IF HasMember("prompt_injection")
         THEN TierResult(DosConfidence, "prompt_injection", "regex_length_check",
                         "False", "Text too long - potential DOS attack")
         ELSE Raise("AttributeError: PROMPT_INJECTION")
    ELSE LET allows == {i \in hits : patterns[i].failure_class = "None"} IN
    IF allows # {}
    THEN LET first == CHOOSE i \in allows : \A j \in allows : i <= j
         IN  TierResult(patterns[first].confidence, "None", "regex_anti", "True",
                        "Strong indicator detected")
    ELSE IF \E i \in hits : patterns[i].failure_class # "None"
    THEN LET best == BestBlock(hits)
         IN  TierResult(patterns[best].confidence, patterns[best].failure_class,
                        "regex_strong", "False", "Failure pattern matched")
    ELSE TierResult(UncertainConfidence, "None", "regex_uncertain", "None",
                    "No strong patterns detected - needs semantic analysis")

(***************************************************************************)
(* enforcement/tier_router.py: TierDecision and TierRouter.route           *)
(***************************************************************************)

tier1_strong == 80
tier1_weak == 30

\* The fields of the dataclass TierDecision; none has a default.
TierDecisionFields == {"tier", "method", "reason", "confidence"}

\* TierDecision(**kwargs): the generated __init__ raises TypeError when a
\* field without default is not given.
TierDecision(kwargs) ==
    IF TierDecisionFields \subseteq DOMAIN kwargs
    THEN [raised |-> FALSE, error |-> "None", tier |-> kwargs.tier]
    ELSE [raised |-> TRUE, error |-> "TypeError: missing required arguments",
          tier |-> 0]

\* route with the confidence test of its first two branches left out.
route_tier_method_only(initial_result) ==
    LET confidence == initial_result.confidence
        method == initial_result.method
    IN  IF method = "regex_strong" THEN 1
        ELSE IF method = "regex_anti" THEN 1
        ELSE IF tier1_weak < confidence /\ confidence < tier1_strong THEN 2
        ELSE 3

\* The tier TierRouter.route chooses for the Tier 1 result.
route_tier(initial_result) ==
    LET confidence == initial_result.confidence
        method == initial_result.method
    IN  IF method = "regex_strong" /\ confidence >= tier1_strong THEN 1
        ELSE IF method = "regex_anti" /\ confidence >= tier1_strong THEN 1
        ELSE IF tier1_weak < confidence /\ confidence < tier1_strong THEN 2
        ELSE 3

\* The TierDecision route returns (all four fields given).
route_decision(initial_result) ==
    TierDecision([tier |-> route_tier(initial_result), method |-> "routed",
                  reason |-> "routed", confidence |-> initial_result.confidence])

StatKey(tier) == CASE tier = 1 -> "tier1" [] tier = 2 -> "tier2" [] OTHER -> "tier3"

\* _record_tier without its second statement.
record_tier_without_total(tier) == << StatKey(tier) >>

\* _record_tier(tier): the keys of tier_stats it increments, in order.  Each
\* "+= 1" reads the entry and then stores the sum: two steps of the thread.
record_tier(tier) == << StatKey(tier), "total" >>

\* tier_stats after _record_tier(tier) ran without interruption.
recorded(stats, tier) ==
    LET keys == record_tier(tier) IN
    [k \in DOMAIN stats |->
        stats[k] + Cardinality({i \in DOMAIN keys : keys[i] = k})]

\* reset_stats with a total that is not cleared.
reset_stats_stale_total == [tier1 |-> 0, tier2 |-> 0, tier3 |-> 0, total |-> 1]

\* reset_stats: the dict it assigns.
reset_stats == [tier1 |-> 0, tier2 |-> 0, tier3 |-> 0, total |-> 0]

\* A percentage get_distribution computes: the double (count / total) * 100,
\* kept as the two integers it is computed from.
Pct(count, total) == [num |-> count, den |-> total]

\* The literal 0.0 of get_distribution.
ZeroPct == Pct(0, 1)

\* The whole percentages p of 0..100 for which the double (p / 100) * 100 is
\* not p: it is above p for those of RoundsUp and below p for those of
\* RoundsDown (7 / 100 * 100 is 7.000000000000001).
RoundsUp == {7, 14, 28, 55, 56}
RoundsDown == {29, 57, 58}

\* pct <= bound.  A share that is exactly bound percent is whatever its
\* double is; every other share is far enough from bound to compare as the
\* exact fraction does.
pct_le_exact(pct, bound) == pct.num * 100 <= bound * pct.den

\* pct <= bound, as the doubles compare.
pct_le(pct, bound) ==
    \/ pct.num * 100 < bound * pct.den
    \/ pct.num * 100 = bound * pct.den /\ bound \notin RoundsUp

\* bound <= pct, as the doubles compare.
pct_ge(pct, bound) ==
    \/ pct.num * 100 > bound * pct.den
    \/ pct.num * 100 = bound * pct.den /\ bound \notin RoundsDown

\* get_distribution: the three percentages and the total.
get_distribution(stats) ==
    IF stats.total = 0
    THEN [tier1_pct |-> ZeroPct, tier2_pct |-> ZeroPct, tier3_pct |-> ZeroPct,
          total_requests |-> 0]
    ELSE [tier1_pct |-> Pct(stats.tier1, stats.total),
          tier2_pct |-> Pct(stats.tier2, stats.total),
          tier3_pct |-> Pct(stats.tier3, stats.total),
          total_requests |-> stats.total]

\* check_distribution_health: the requests it needs and the healthy ranges.
HealthMinRequests == 100
Tier1HealthyMin == 92
Tier1HealthyMax == 98
Tier2HealthyMin == 2
Tier2HealthyMax == 7
Tier3HealthyMin == 0
Tier3HealthyMax == 3

\* check_distribution_health: is_healthy, and for the message the tiers it
\* warns about ("not enough data" below HealthMinRequests requests).
check_distribution_health(stats) ==
    LET dist == get_distribution(stats)
        tier1_healthy == /\ pct_ge(dist.tier1_pct, Tier1HealthyMin)
                         /\ pct_le(dist.tier1_pct, Tier1HealthyMax)
        tier2_healthy == /\ pct_ge(dist.tier2_pct, Tier2HealthyMin)
                         /\ pct_le(dist.tier2_pct, Tier2HealthyMax)
        tier3_healthy == /\ pct_ge(dist.tier3_pct, Tier3HealthyMin)
                         /\ pct_le(dist.tier3_pct, Tier3HealthyMax)
    IN  IF dist.total_requests < HealthMinRequests
        THEN [is_healthy |-> TRUE, message |-> "not enough data", warnings |-> {}]
        ELSE IF tier1_healthy /\ tier2_healthy /\ tier3_healthy
        THEN [is_healthy |-> TRUE, message |-> "healthy", warnings |-> {}]
        ELSE [is_healthy |-> FALSE, message |-> "warnings",
              warnings |-> {tier \in 1..3 :
                              \/ tier = 1 /\ ~tier1_healthy
                              \/ tier = 2 /\ ~tier2_healthy
                              \/ tier = 3 /\ ~tier3_healthy}]

\* ControlTowerV3.get_tier_stats, without health and availability.
get_tier_stats(stats) ==
    [total |-> stats.total, tier1_count |-> stats.tier1,
     tier2_count |-> stats.tier2, tier3_count |-> stats.tier3,
     distribution |-> get_distribution(stats)]

(***************************************************************************)
(* Tier 2: ControlTowerV3._tier2_detect                                    *)
(***************************************************************************)

SecurityThreshold == 10
GeneralThreshold == 30
SemanticTruncLen == 1000
DetectMinLen == 10
UnavailableConfidence == 50

security_classes == << "prompt_injection", "bias", "toxicity" >>
general_classes ==
    << "fabricated_concept", "missing_grounding", "overconfidence",
       "domain_mismatch", "fabricated_fact" >>

\* The classes of the sweep in the order of the two loops, each with the
\* threshold its loop passes.
SweepClasses ==
    [i \in 1..(Len(security_classes) + Len(general_classes)) |->
        IF i <= Len(security_classes)
        THEN [class |-> security_classes[i], threshold |-> SecurityThreshold]
        ELSE [class |-> general_classes[i - Len(security_classes)],
              threshold |-> GeneralThreshold]]

\* SemanticDetector.detect(response, failure_class, threshold).  sim is what
\* the encoder and the search give for the class: it raises, or it is the
\* similarity score.
detect(text, sim, threshold) ==
    IF sim.raised THEN [raised |-> TRUE, confidence |-> 0, detected |-> FALSE]
    ELSE IF Len(text) < DetectMinLen
    THEN [raised |-> FALSE, confidence |-> 0, detected |-> FALSE]
    ELSE [raised |-> FALSE, confidence |-> sim.score,
          detected |-> sim.score >= threshold]

\* The two loops: state is (max_similarity, detected_class) after the first k
\* classes.  A class whose detect raises is skipped (continue).
Sweep(text, sims, k) ==
    LET after[n \in 0..k] ==
            IF n = 0 THEN [max_similarity |-> 0, detected_class |-> "None"]
            ELSE LET before == after[n - 1]
                     c == SweepClasses[n]
                     result == detect(text, sims[c.class], c.threshold)
                 IN  IF result.raised THEN before
                     ELSE IF result.confidence > before.max_similarity
                     THEN [max_similarity |-> result.confidence,
                           detected_class |-> IF result.detected THEN c.class
                                              ELSE before.detected_class]
                     ELSE before
    IN  after[k]

\* The names the dict literal class_mapping looks up on FailureClass.
class_mapping_members ==
    {"prompt_injection", "bias", "toxicity", "fabricated_concept",
     "missing_grounding", "overconfidence", "domain_mismatch", "fabricated_fact"}

\* failure_class_enum: building class_mapping raises AttributeError when one
\* of its members is missing, the except keeps None.
MapClass(detected_class) ==
    IF detected_class = "None" THEN "None"
    ELSE IF \A m \in class_mapping_members : HasMember(m) THEN detected_class
    ELSE "None"

tier2_detect(text, sims, available) ==
    IF ~available
    THEN TierResult(UnavailableConfidence, "None", "semantic_unavailable", "True",
                    "Semantic detector unavailable - allowing conservatively")
    ELSE LET t == IF Len(text) > SemanticTruncLen
                  THEN SubSeq(text, 1, SemanticTruncLen) ELSE text
             s == Sweep(t, sims, Len(SweepClasses))
         IN  TierResult(s.max_similarity, MapClass(s.detected_class), "semantic",
                        IF s.detected_class = "None" THEN "True" ELSE "False",
                        "Semantic analysis")

\* should_escalate_to_tier3
GrayLow == 5
GrayHigh == 15
LowDetection == 25

should_escalate_to_tier3(tier2_result) ==
    LET confidence == tier2_result.confidence
        failure_detected == tier2_result.failure_class # "None"
    IN  \/ (GrayLow <= confidence /\ confidence < GrayHigh)
        \/ (failure_detected /\ confidence < LowDetection)

(***************************************************************************)
(* Tier 3: ControlTowerV3._tier3_detect                                    *)
(***************************************************************************)

AgentDefaultConfidence == 70

\* _tier3_detect with one fallback for both cases: an agent that raises is
\* reported like an agent that is unavailable.
tier3_detect_one_fallback(answer, available) ==
    IF ~available \/ answer.raised
       \/ (answer.decision = "BLOCK" /\ ~HasMember("prompt_injection"))
    THEN TierResult(UnavailableConfidence, "None", "llm_unavailable", "True",
                    "LLM agent unavailable - allowing conservatively")
    ELSE TierResult(IF answer.has_confidence THEN answer.confidence
                    ELSE AgentDefaultConfidence,
                    IF answer.decision = "BLOCK" THEN "prompt_injection" ELSE "None",
                    "llm_agent",
                    IF answer.decision = "BLOCK" THEN "False" ELSE "True",
                    IF answer.reasoning = "missing"
                    THEN "LLM agent analysis completed" ELSE answer.reasoning)

\* answer: what self.llm_agent.analyze(text, context) does: it raises, or it
\* returns a dict; a key the dict lacks has the value "missing".
tier3_detect(answer, available) ==
    IF ~available
    THEN TierResult(UnavailableConfidence, "None", "llm_unavailable", "True",
                    "LLM agent unavailable - allowing conservatively")
    ELSE IF answer.raised
    THEN TierResult(UnavailableConfidence, "None", "llm_error", "True",
                    "LLM agent error - allowing conservatively")
    ELSE LET should_block == answer.decision = "BLOCK" IN
    IF should_block /\ ~HasMember("prompt_injection")
    THEN TierResult(UnavailableConfidence, "None", "llm_error", "True",
                    "LLM agent error - allowing conservatively")
    ELSE TierResult(IF answer.has_confidence THEN answer.confidence
                    ELSE AgentDefaultConfidence,
                    IF should_block THEN "prompt_injection" ELSE "None",
                    "llm_agent",
                    IF should_block THEN "False" ELSE "True",
                    IF answer.reasoning = "missing"
                    THEN "LLM agent analysis completed" ELSE answer.reasoning)

(***************************************************************************)
(* The policy document and the verdict                                     *)
(***************************************************************************)

FullEntries ==
    [c \in FailureClass |->
        IF c \in {"fabricated_concept", "fabricated_fact", "dangerous_content"}
        THEN [action |-> "block", severity |-> "critical"]
        ELSE [action |-> "warn", severity |-> "medium"]]

\* The policy files the model puts on disk: the failure_policies of each,
\* and the class of each of its examples, in file order.  File 2 lowers
\* dangerous_content to a warning and has no entry for fabricated_fact; file
\* 3 lists no examples.
PolicyFiles ==
    << [entries |-> FullEntries,
        examples |-> <<"fabricated_fact", "dangerous_content">>],
       [entries |-> [c \in FailureClass \ {"fabricated_fact"} |->
                        IF c = "fabricated_concept"
                        THEN [action |-> "block", severity |-> "critical"]
                        ELSE [action |-> "warn", severity |-> "high"]],
        examples |-> <<"dangerous_content", "fabricated_concept",
                       "fabricated_concept">>],
       [entries |-> FullEntries, examples |-> << >>] >>

\* HarmVectorDB._compute_policy_hash: SHA-256 of the bytes; different files
\* of the model have different hashes.
compute_policy_hash(file) == file

\* self.policy.get_policy(failure_class) on the document the tower loaded.
get_policy(loaded, failure_class) ==
    IF failure_class \in DOMAIN PolicyFiles[loaded].entries
    THEN [raised |-> FALSE,
          action |-> PolicyFiles[loaded].entries[failure_class].action,
          severity |-> PolicyFiles[loaded].entries[failure_class].severity]
    ELSE [raised |-> TRUE, action |-> "None", severity |-> "None"]

\* The dataclass DetectionResult that evaluate_response returns.
DetectionResult(action, tier_used, method, confidence, failure_class, severity, explanation) ==
    [action |-> action, tier_used |-> tier_used, method |-> method,
     confidence |-> confidence, failure_class |-> failure_class,
     severity |-> severity, explanation |-> explanation]

NoVerdict == DetectionResult("None", 0, "None", 0, "None", "None", "")

FallbackConfidence == 50

\* The except branch with a verdict that names no tier.
error_fallback_no_tier ==
    DetectionResult("allow", 0, "error_fallback", FallbackConfidence, "None", "None",
                    "Detection error - allowing conservatively")

\* The except branch of evaluate_response.
error_fallback ==
    DetectionResult("allow", 1, "error_fallback", FallbackConfidence, "None", "None",
                    "Detection error - allowing conservatively")

\* What a call of evaluate_response gives its caller.
Returned(verdict, step_raised) ==
    [outcome |-> "returned", verdict |-> verdict, step_raised |-> step_raised]

\* evaluate_response without its except branch: the exception leaves the call.
try_without_except(body) ==
    IF body.raised
    THEN [outcome |-> "raised", verdict |-> NoVerdict, step_raised |-> TRUE]
    ELSE Returned(body.verdict, FALSE)

\* try: body  except Exception: return the fallback.  body is the verdict the
\* try block computes, or the exception a step of it raised.
try_except(body) ==
    IF body.raised THEN Returned(error_fallback, TRUE)
    ELSE Returned(body.verdict, FALSE)

BodyVerdict(verdict) == [raised |-> FALSE, verdict |-> verdict]
BodyRaise == [raised |-> TRUE, verdict |-> NoVerdict]

\* "if tier1_result.get('method') == 'regex_pathological'": the early return.
pathological_return(tier1_result) ==
    IF HasMember("prompt_injection")
    THEN BodyVerdict(DetectionResult("block", 1, "regex_pathological",
                                     tier1_result.confidence, "prompt_injection",
                                     "critical", tier1_result.explanation))
    ELSE BodyRaise

\* The final DetectionResult built without the explanation of the tier result.
decide_without_explanation(final_result, tier, loaded) ==
    IF final_result.failure_class # "None"
    THEN LET policy == get_policy(loaded, final_result.failure_class)
         IN  IF policy.raised THEN BodyRaise
             ELSE BodyVerdict(DetectionResult(policy.action, tier,
                     final_result.method, final_result.confidence,
                     final_result.failure_class, policy.severity, ""))
    ELSE IF final_result.should_allow = "False"
    THEN BodyVerdict(DetectionResult("warn", tier, final_result.method,
             final_result.confidence, "None", "medium", ""))
    ELSE BodyVerdict(DetectionResult("allow", tier, final_result.method,
             final_result.confidence, "None", "None", ""))

\* The final DetectionResult with the policy lookup as the only source of
\* WARN: a result without a failure class is allowed.
decide_allow_without_class(final_result, tier, loaded) ==
    IF final_result.failure_class # "None"
    THEN LET policy == get_policy(loaded, final_result.failure_class)
         IN  IF policy.raised THEN BodyRaise
             ELSE BodyVerdict(DetectionResult(policy.action, tier,
                     final_result.method, final_result.confidence,
                     final_result.failure_class, policy.severity,
                     final_result.explanation))
    ELSE BodyVerdict(DetectionResult("allow", tier, final_result.method,
             final_result.confidence, "None", "None", final_result.explanation))

\* "Determine action based on result" and the final DetectionResult.
decide(final_result, tier, loaded) ==
    IF final_result.failure_class # "None"
    THEN LET policy == get_policy(loaded, final_result.failure_class)
         IN  IF policy.raised THEN BodyRaise
             ELSE BodyVerdict(DetectionResult(policy.action, tier,
                     final_result.method, final_result.confidence,
                     final_result.failure_class, policy.severity,
                     final_result.explanation))
    ELSE IF final_result.should_allow = "False"
    THEN BodyVerdict(DetectionResult("warn", tier, final_result.method,
             final_result.confidence, "None", "medium", final_result.explanation))
    ELSE BodyVerdict(DetectionResult("allow", tier, final_result.method,
             final_result.confidence, "None", "None", final_result.explanation))

(***************************************************************************)
(* HarmVectorDB (signals/embeddings/harm_vector_db.py), one call at a time *)
(***************************************************************************)

\* self.index: None, or an IndexFlatIP that holds the embeddings of the first
\* ntotal examples of a policy file, vector i being example i + 1.
NoIndex == [built |-> FALSE, file |-> 0, ntotal |-> 0]
IndexFlatIP(file, ntotal) == [built |-> TRUE, file |-> file, ntotal |-> ntotal]

\* The texts of the first n examples of a file.
ExampleTexts(file, n) == [i \in 1..n |-> << file, i >>]

\* The attributes after __init__ assigned them and before load_from_policy.
\* harm_map is the sequence of the classes of vectors 0, 1, ...; the hash ""
\* is 0.
EmptyHarmDB ==
    [index |-> NoIndex, harm_map |-> << >>, example_texts |-> << >>, policy_hash |-> 0]

\* load_from_policy with "file" on disk: the attributes afterwards, and
\* whether it raised ValueError (no examples in the file).
load_from_policy(db, file) ==
    LET new_hash == compute_policy_hash(file)
        examples == PolicyFiles[file].examples
    IN  IF new_hash = db.policy_hash /\ db.index.built
        THEN [db |-> db, raised |-> FALSE]
        ELSE IF examples = << >>
        THEN [db |-> [db EXCEPT !.harm_map = << >>, !.example_texts = << >>],
              raised |-> TRUE]
        ELSE [db |-> [index |-> IndexFlatIP(file, Len(examples)),
                      harm_map |-> examples,
                      example_texts |-> ExampleTexts(file, Len(examples)),
                      policy_hash |-> new_hash],
              raised |-> FALSE]

\* reload_if_changed with "file" on disk.
reload_if_changed(db, file) ==
    IF compute_policy_hash(file) # db.policy_hash
    THEN load_from_policy(db, file)
    ELSE [db |-> db, raised |-> FALSE]

(***************************************************************************)
(* Inputs                                                                  *)
(***************************************************************************)

\* The texts of the model.
Texts ==
    << << >>,                                               \* 1  ""
       <<"a", "b">>,                                        \* 2  "ab"
       <<" ", "a", "b", " ">>,                              \* 3  " ab "
       Rep(" ", 21),                                        \* 4  21 spaces
       Rep(" ", 60),                                        \* 5  60 spaces
       <<"c","m","d",".","e","x","e">>,                     \* 6  "cmd.exe"
       <<"r","u","n"," ","C","M","D",".","e","x","e">>,     \* 7  "run CMD.exe"
       Rep("a", 20),                                        \* 8  "a" * 20
       Rep("a", 21),                                        \* 9  "a" * 21
       RepSeq(Rep("a", 10) \o <<"b">>, 5),                  \* 10 ("a"*10 + "b") * 5
       RepSeq(<<"a", "b">>, 51),                            \* 11 "ab" * 51
       RepSeq(<<"a", "a", "a", "a", "b">>, 12),             \* 12 "aaaab" * 12
       <<"t","h","e"," ","m","e","d","i","a","n"," ","i","s"," ","4","2">> >>
                                                            \* 13 "the median is 42"

TextIds == DOMAIN Texts

\* Which patterns match a text is decided by the regex engine on the pattern
\* library: any subset.
HitSets == SUBSET (DOMAIN patterns)

\* The results _tier1_detect can give for each text, over the sets of
\* matching patterns: pairs << text, result >>.
Tier1Outcomes(hitsets) ==
    { << i, tier1_detect(Texts[i], h) >> : i \in TextIds, h \in hitsets }

Tier1All == Tier1Outcomes(HitSets)

\* What the semantic detector gives for one class.
SimRaises == [raised |-> TRUE, score |-> 0]
Sim(score) == [raised |-> FALSE, score |-> score]
SimOutcomes == {SimRaises} \cup {Sim(x) : x \in {3, 5, 14, 15, 24, 28, 45, 100}}

SweepClassNames == {SweepClasses[i].class : i \in DOMAIN SweepClasses}

\* The per-class outcomes of one sweep: one security class and one general
\* class get any outcome, the other classes all score 0 or all raise.
SimProfiles ==
    { [c \in SweepClassNames |-> IF c = sc THEN o1 ELSE IF c = gc THEN o2 ELSE b] :
        sc \in {"prompt_injection", "toxicity"},
        gc \in {"missing_grounding", "fabricated_fact"},
        o1 \in SimOutcomes, o2 \in SimOutcomes, b \in {Sim(0), SimRaises} }

\* The results _tier2_detect can give for each text, with the detector
\* available or not, over the outcomes of the sweep: triples
\* << text, tier2_available, result >>.
Tier2Outcomes(profiles) ==
    { << i, a, tier2_detect(Texts[i], sims, a) >> :
        i \in TextIds, a \in BOOLEAN, sims \in profiles }

Tier2All == Tier2Outcomes(SimProfiles)

\* What llm_agent.analyze does.
AgentAnswer(decision, has_confidence, confidence, reasoning) ==
    [raised |-> FALSE, decision |-> decision, has_confidence |-> has_confidence,
     confidence |-> confidence, reasoning |-> reasoning]

AgentAnswers ==
    { [raised |-> TRUE, decision |-> "None", has_confidence |-> FALSE,
       confidence |-> 0, reasoning |-> "missing"],
      AgentAnswer("ALLOW", TRUE, 90, "benign request"),
      AgentAnswer("ALLOW", FALSE, 0, "missing"),
      AgentAnswer("ALLOW", TRUE, 0, "no signal"),
      AgentAnswer("ALLOW", TRUE, 100, "certainly benign"),
      AgentAnswer("BLOCK", TRUE, 90, "injection attempt"),
      AgentAnswer("BLOCK", TRUE, 90, "") }

\* The policy files from which a tower and a harm index can be built.
LoadableFiles == {f \in DOMAIN PolicyFiles : PolicyFiles[f].examples # << >>}

(***************************************************************************)
(* State                                                                   *)
(***************************************************************************)

\* evaluate_response calls a sequential client makes (Spec, SpecReload).
MaxCalls == 2
\* Requests the endpoint serves, each in its own worker thread (SpecApi).
MaxRequests == 2

Threads == 1..MaxRequests

VARIABLES
    tier_stats,       \* TierRouter.tier_stats
    tier2_available,  \* ControlTowerV3.tier2_available
    tier3_available,  \* ControlTowerV3.tier3_available
    tower_policy,     \* the policy file ControlTowerV3.policy was loaded from
    policy_file,      \* the policy file on disk
    harm_db,          \* the attributes of the HarmVectorDB singleton
    call,             \* per thread: the evaluate_response call it runs
    ncalls,           \* evaluate_response calls started so far
    last_op,          \* the last operation of the sequential client
    stats_before,     \* tier_stats before the last reset_tier_stats
    handler,          \* per request: the detect coroutine
    task,             \* per request: the asyncio task detection_task
    loading,          \* the thread that reloads the HarmVectorDB
    harm_call,        \* the thread that calls detect_harm
    harm_cache,       \* the lru_cache of detect_harm: text -> result
    probe,            \* the last direct call of a TierRouter method
    ctx,              \* SafeAgent.ctx: the attributes of its AgentContext
    acts              \* the act calls made on the SafeAgent, in order

vars == << tier_stats, tier2_available, tier3_available, tower_policy, policy_file,
           harm_db, call, ncalls, last_op, stats_before, handler, task,
           loading, harm_call, harm_cache, probe, ctx, acts >>

agent_vars == << ctx, acts >>
config_vars == << tier2_available, tier3_available, tower_policy >>
api_vars == << handler, task >>
harm_vars == << loading, harm_call, harm_cache >>

NoResult == TierResult(0, "None", "None", "None", "")
NoReturn == [outcome |-> "none", verdict |-> NoVerdict, step_raised |-> FALSE]

\* The pattern set and the platform of a call: the patterns whose regex
\* matches the text, and whether the signal module has SIGALRM.
RegexEnv(matching, sigalrm) == [matching |-> matching, sigalrm |-> sigalrm]
NoRegexEnv == RegexEnv({}, FALSE)

\* What is kept of the call a thread made before its current one.
NoEarlier ==
    [valid |-> FALSE, text |-> 1, context_arg |-> "None", regex_env |-> NoRegexEnv,
     tier1_result |-> NoResult, tier2_called |-> FALSE, tier2_result |-> NoResult,
     tier3_called |-> FALSE, verdict |-> NoVerdict]

\* A thread that runs no call.  counted: the tier_stats keys the call has
\* incremented; stats_at_start, file_at_start: tier_stats and the file on
\* disk when the call began; context_arg, context: the argument and the
\* local after "context = context or {}"; earlier: the thread's previous call;
\* final_result: the local of that name, once a tier result was assigned to it;
\* agent_raised: llm_agent.analyze was called and raised.
IdleCall ==
    [pc |-> "idle", text |-> 1, tier1_result |-> NoResult, tier |-> 0, rec_k |-> 0,
     loaded |-> 0, tier2_called |-> FALSE, tier2_result |-> NoResult,
     tier3_called |-> FALSE, escalated |-> FALSE, counted |-> << >>,
     result |-> NoReturn, stats_at_start |-> reset_stats, file_at_start |-> 0,
     context_arg |-> "None", context |-> "{}", regex_env |-> NoRegexEnv,
     earlier |-> NoEarlier, final_result |-> NoResult, agent_raised |-> FALSE]

\* A request the endpoint has not received yet.  log: the statements of the
\* timeout branch executed so far; responses: what the client was sent.
IdleHandler ==
    [pc |-> "new", text |-> 1, timed_out |-> FALSE, log |-> << >>,
     responses |-> << >>]

\* A thread that is not inside reload_if_changed.  new_hash, parsed, idx: the
\* locals of load_from_policy (the hash, the file yaml.safe_load read, the
\* next vector index); reloaded: what reload_if_changed returned.
IdleLoad ==
    [pc |-> "idle", new_hash |-> 0, parsed |-> 0, idx |-> 0, raised |-> FALSE,
     reloaded |-> "None"]

\* What detect_harm returns: (failure_class, score).  The score of a search in
\* an empty index is NoScore.
NoScore == -1
HarmResult(failure_class, score) == [failure_class |-> failure_class, score |-> score]

\* A thread that is not inside detect_harm.  n: the calls it made; searched,
\* idx: the index self.index.search ran on and the vector it returned;
\* map_seen: self.harm_map when line 218 read it; from_cache: the lru_cache
\* answered.
IdleHarmCall ==
    [pc |-> "idle", n |-> 0, text |-> 1, searched |-> NoIndex, idx |-> NoScore,
     score |-> NoScore, looked_up |-> FALSE, map_seen |-> << >>,
     from_cache |-> FALSE, raised |-> FALSE, result |-> HarmResult("None", 0)]

\* No direct call of _tier2_detect was made yet.
NoSims == [c \in SweepClassNames |-> Sim(0)]

\* No direct call of is_pathological_input_early returned yet.
NoGate == [is_pathological |-> FALSE, reason |-> "", confidence |-> 0]

\* No check_distribution_health call returned yet.
NoHealth == [is_healthy |-> TRUE, message |-> "none", warnings |-> {}]

\* No TierRouter method was called directly yet.  For preprocess_input,
\* first: the text of the first call; raw, max_length and out: the arguments
\* and the value of the last call.
NoProbe ==
    [op |-> "none", arg |-> NoResult, ret |-> 0, health |-> NoHealth, text |-> 0,
     gate |-> NoGate, sims |-> NoSims, first |-> << >>, max_length |-> 0,
     raw |-> << >>, out |-> << >>]


(***************************************************************************)
(* agent/context.py, agent/guard.py: the step budget of a SafeAgent        *)
(***************************************************************************)

DefaultMaxSteps == 5

\* AgentContext.__init__; block_reason None is "None".
AgentContext(max_steps) ==
    [max_steps |-> max_steps, current_step |-> 0, actions |-> << >>,
     blocked |-> FALSE, block_reason |-> "None"]

\* AgentContext.record_action
record_action(c, action) ==
    [c EXCEPT !.current_step = @ + 1, !.actions = Append(@, action)]

\* is_exhausted that allows the step at the limit.
is_exhausted_after_limit(c) == c.current_step > c.max_steps

\* AgentContext.is_exhausted
is_exhausted(c) == c.current_step >= c.max_steps

\* AgentGuard.check: the dict it returns, and the context after it.
check(c) ==
    IF is_exhausted(c)
    THEN [blocked |-> TRUE, reason |-> "agent_step_exhaustion",
          after |-> [c EXCEPT !.blocked = TRUE,
                              !.block_reason = "agent_step_exhaustion"]]
    ELSE [blocked |-> FALSE, reason |-> "None", after |-> c]


\* ControlTowerV3.__init__ and HarmVectorDB.__init__ with a loadable file on
\* disk: the semantic detector and the agent initialise or fail.
Init ==
    /\ tier_stats = reset_stats
    /\ tier2_available \in BOOLEAN
    /\ tier3_available \in BOOLEAN
    /\ policy_file \in LoadableFiles
    /\ tower_policy = policy_file
    /\ harm_db = load_from_policy(EmptyHarmDB, policy_file).db
    /\ call = [t \in Threads |-> IdleCall]
    /\ ncalls = 0
    /\ last_op = "init"
    /\ stats_before = reset_stats
    /\ handler = [r \in Threads |-> IdleHandler]
    /\ task = [r \in Threads |-> "none"]
    /\ loading = IdleLoad
    /\ harm_call = IdleHarmCall
    /\ harm_cache = << >>
    /\ probe = NoProbe
    /\ ctx = AgentContext(DefaultMaxSteps)
    /\ acts = << >>

(***************************************************************************)
(* evaluate_response, step by step.  A step is the code between two        *)
(* accesses of tier_stats or two calls of a detector.                      *)
(***************************************************************************)

Finished(c, ret) == [c EXCEPT !.pc = "done", !.result = ret]

\* From the entry of evaluate_response to the first access of tier_stats:
\* _tier1_detect, the early return, and route up to _record_tier.
AfterTier1(c, r1) ==
    IF r1.raised THEN Finished(c, try_except(BodyRaise))
    ELSE IF r1.method = "regex_pathological"
    THEN Finished([c EXCEPT !.tier1_result = r1], try_except(pathological_return(r1)))
    ELSE [c EXCEPT !.tier1_result = r1, !.tier = route_decision(r1).tier,
                   !.rec_k = 1, !.pc = "record_load"]

\* An orchestration that takes the Tier 1 result as final whenever the call
\* came with a context.
AfterRoute_final_with_context(c) ==
    IF c.tier = 1 \/ c.context # "{}"
    THEN Finished([c EXCEPT !.final_result = c.tier1_result],
                         try_except(decide(c.tier1_result, c.tier, tower_policy)))
    ELSE IF c.tier = 2 THEN [c EXCEPT !.pc = "tier2"]
    ELSE [c EXCEPT !.pc = "tier3"]

\* From the last store of _record_tier to the next detector call or the
\* return: route returns its TierDecision, and Tier 1 results are final.
AfterRoute(c) ==
    IF c.tier = 1
    THEN Finished([c EXCEPT !.final_result = c.tier1_result],
                         try_except(decide(c.tier1_result, c.tier, tower_policy)))
    ELSE IF c.tier = 2 THEN [c EXCEPT !.pc = "tier2"]
    ELSE [c EXCEPT !.pc = "tier3"]

\* "context = context or {}": None and the empty dict give the empty dict.
context_or_empty(context_arg) ==
    IF context_arg \in {"None", "{}"} THEN "{}" ELSE context_arg

\* What a finished call leaves for the comparison with the thread's next call.
Summary(c) ==
    [valid |-> c.pc = "done", text |-> c.text, context_arg |-> c.context_arg,
     regex_env |-> c.regex_env, tier1_result |-> c.tier1_result,
     tier2_called |-> c.tier2_called, tier2_result |-> c.tier2_result,
     tier3_called |-> c.tier3_called, verdict |-> c.result.verdict]

\* A call begins on thread t with the text and the context, under the pattern
\* set and platform env; r1 is what _tier1_detect gives.
BeginCallWith(t, text, context_arg, env, r1) ==
    /\ call' = [call EXCEPT ![t] =
          AfterTier1([IdleCall EXCEPT !.text = text, !.stats_at_start = tier_stats,
                                      !.file_at_start = policy_file,
                                      !.context_arg = context_arg,
                                      !.context = context_or_empty(context_arg),
                                      !.regex_env = env,
                                      !.earlier = Summary(call[t])], r1)]
    /\ ncalls' = ncalls + 1

\* A call begins on thread t with the text; r1 is what _tier1_detect gives.
BeginCall(t, text, r1) ==
    /\ call' = [call EXCEPT ![t] =
          AfterTier1([IdleCall EXCEPT !.text = text, !.stats_at_start = tier_stats,
                                      !.file_at_start = policy_file], r1)]
    /\ ncalls' = ncalls + 1

\* self.tier_stats[key] += 1, first half: read the entry.
RecordLoad(t) ==
    /\ call[t].pc = "record_load"
    /\ call' = [call EXCEPT ![t].loaded = tier_stats[record_tier(call[t].tier)[call[t].rec_k]],
                            ![t].pc = "record_store"]
    /\ UNCHANGED << tier_stats, config_vars, policy_file, harm_db, ncalls, last_op,
                    stats_before, api_vars, harm_vars, probe, agent_vars >>

\* self.tier_stats[key] += 1, second half: store the sum.
RecordStore(t) ==
    /\ call[t].pc = "record_store"
    /\ LET keys == record_tier(call[t].tier)
           key == keys[call[t].rec_k]
           c == [call[t] EXCEPT !.counted = Append(@, key)]
       IN  /\ tier_stats' = [tier_stats EXCEPT ![key] = call[t].loaded + 1]
           /\ call' = [call EXCEPT ![t] =
                 IF c.rec_k < Len(keys)
                 THEN [c EXCEPT !.rec_k = @ + 1, !.pc = "record_load"]
                 ELSE AfterRoute(c)]
    /\ UNCHANGED << config_vars, policy_file, harm_db, ncalls, last_op, stats_before,
                    api_vars, harm_vars, probe, agent_vars >>

\* _tier2_detect, the escalation test, and the return when Tier 2 is final.
Tier2Step(t, outcomes) ==
    /\ call[t].pc = "tier2"
    /\ \E o \in outcomes :
          /\ o[1] = call[t].text
          /\ o[2] = tier2_available
          /\ LET r2 == o[3]
                 c == [call[t] EXCEPT !.tier2_called = TRUE, !.tier2_result = r2]
             IN  call' = [call EXCEPT ![t] =
                    IF should_escalate_to_tier3(r2) /\ tier3_available
                    THEN [c EXCEPT !.escalated = TRUE, !.pc = "tier3"]
                    ELSE Finished([c EXCEPT !.final_result = r2],
                         try_except(decide(r2, c.tier, tower_policy)))]
    /\ UNCHANGED << tier_stats, config_vars, policy_file, harm_db, ncalls, last_op,
                    stats_before, api_vars, harm_vars, probe, agent_vars >>

\* _tier3_detect and the return.  After an escalation the code builds
\* TierDecision(tier=3, reason=...) before it goes on.
Tier3Step(t, answers) ==
    /\ call[t].pc = "tier3"
    /\ \E answer \in answers :
          LET r3 == tier3_detect(answer, tier3_available)
              c == [call[t] EXCEPT !.tier3_called = TRUE,
                                   !.agent_raised = tier3_available /\ answer.raised]
              d == IF c.escalated
                   THEN TierDecision([tier |-> 3, reason |-> "Escalated from Tier 2"])
                   ELSE [raised |-> FALSE, error |-> "None", tier |-> c.tier]
          IN  call' = [call EXCEPT ![t] =
                 IF d.raised
                 THEN Finished([c EXCEPT !.final_result = r3], try_except(BodyRaise))
                 ELSE Finished([c EXCEPT !.final_result = r3],
                         try_except(decide(r3, d.tier, tower_policy)))]
    /\ UNCHANGED << tier_stats, config_vars, policy_file, harm_db, ncalls, last_op,
                    stats_before, api_vars, harm_vars, probe, agent_vars >>

(***************************************************************************)
(* A sequential client of the core: one operation at a time                *)
(***************************************************************************)

NoCallRunning == \A t \in Threads : call[t].pc \in {"idle", "done"}

\* evaluate_response(text) called directly.
Evaluate(texts, outcomes) ==
    /\ NoCallRunning
    /\ ncalls < MaxCalls
    /\ \E o \in outcomes : o[1] \in texts /\ BeginCall(1, o[1], o[2])
    /\ last_op' = "call"
    /\ UNCHANGED << tier_stats, config_vars, policy_file, harm_db, stats_before,
                    api_vars, harm_vars, probe, agent_vars >>

\* ControlTowerV3.reset_tier_stats()
ResetTierStats ==
    /\ NoCallRunning
    /\ tier_stats' = reset_stats
    /\ stats_before' = tier_stats
    /\ last_op' = "reset"
    /\ UNCHANGED << config_vars, policy_file, harm_db, call, ncalls, api_vars, harm_vars, probe, agent_vars >>

Next ==
    \/ Evaluate(TextIds, Tier1All)
    \/ RecordLoad(1)
    \/ RecordStore(1)
    \/ Tier2Step(1, Tier2All)
    \/ Tier3Step(1, AgentAnswers)
    \/ ResetTierStats

Spec == Init /\ [][Next]_vars

(***************************************************************************)
(* A client that calls the methods of a TierRouter directly                *)
(***************************************************************************)

\* route calls of the model.
MaxRoutes == 2

\* The dicts given to route: every method _tier1_detect names, and "unknown"
\* for a dict without method; confidences around the thresholds.
RouteMethods ==
    {"regex_strong", "regex_anti", "regex_uncertain", "regex_skipped",
     "regex_length_check", "regex_pathological", "unknown"}
RouteConfidences == {0, 5, 14, 15, 20, 29, 30, 31, 50, 79, 80, 81, 95, 100}
RouteInputs ==
    { TierResult(c, "None", method, "None", "") :
        c \in RouteConfidences, method \in RouteMethods }

\* TierRouter.route(initial_result): _record_tier and the TierDecision.
Route ==
    /\ tier_stats.total < MaxRoutes
    /\ \E input \in RouteInputs :
          LET decision == route_decision(input) IN
          /\ tier_stats' = recorded(tier_stats, decision.tier)
          /\ probe' = [NoProbe EXCEPT !.op = "route", !.arg = input,
                                          !.ret = decision.tier]
    /\ UNCHANGED << config_vars, policy_file, harm_db, call, ncalls, last_op,
                    stats_before, api_vars, harm_vars, agent_vars >>

NextRouter ==
    \/ Route

SpecRouter == Init /\ [][NextRouter]_vars

(***************************************************************************)
(* A client that asks a TierRouter in use for its health                   *)
(***************************************************************************)

\* The counters of the router when the client arrives: totals below, at and
\* above the 100 requests the check needs, and Tier 2 and Tier 3 counts that
\* put the shares below, on and above every bound of the ranges.  Tier 1
\* has the rest.
HealthTotals == {0, 50, 99, 100, 200}
MaxTier2Count == 17
MaxTier3Count == 11
HealthStats ==
    { [tier1 |-> c[1] - c[2] - c[3], tier2 |-> c[2], tier3 |-> c[3], total |-> c[1]] :
        c \in { d \in HealthTotals \X (0..MaxTier2Count) \X (0..MaxTier3Count) :
                    d[2] + d[3] <= d[1] } }

\* A tower whose router already served requests.
InitHealth ==
    /\ tier_stats \in HealthStats
    /\ tier2_available \in BOOLEAN
    /\ tier3_available \in BOOLEAN
    /\ policy_file \in LoadableFiles
    /\ tower_policy = policy_file
    /\ harm_db = load_from_policy(EmptyHarmDB, policy_file).db
    /\ call = [t \in Threads |-> IdleCall]
    /\ ncalls = 0
    /\ last_op = "init"
    /\ stats_before = reset_stats
    /\ handler = [r \in Threads |-> IdleHandler]
    /\ task = [r \in Threads |-> "none"]
    /\ loading = IdleLoad
    /\ harm_call = IdleHarmCall
    /\ harm_cache = << >>
    /\ probe = NoProbe
    /\ ctx = AgentContext(DefaultMaxSteps)
    /\ acts = << >>

\* TierRouter.check_distribution_health().
CheckHealth ==
    /\ probe' = [NoProbe EXCEPT !.op = "health",
                                !.health = check_distribution_health(tier_stats)]
    /\ UNCHANGED << tier_stats, config_vars, policy_file, harm_db, call, ncalls,
                    last_op, stats_before, api_vars, harm_vars, agent_vars >>

NextHealth ==
    \/ CheckHealth

SpecHealth == InitHealth /\ [][NextHealth]_vars

(***************************************************************************)
(* A client that calls _tier2_detect directly on a tower whose semantic    *)
(* detector is available                                                   *)
(***************************************************************************)

\* _tier2_detect(text, tier1_result) with the per-class outcomes a profile
\* gives.  tier1_result is not read.  The client makes one call.
Tier2Detect ==
    /\ tier2_available
    /\ probe.op = "none"
    /\ \E i \in TextIds, profile \in SimProfiles :
          probe' = [NoProbe EXCEPT !.op = "tier2", !.text = i, !.sims = profile,
                                   !.arg = tier2_detect(Texts[i], profile, TRUE)]
    /\ UNCHANGED << tier_stats, config_vars, policy_file, harm_db, call, ncalls,
                    last_op, stats_before, api_vars, harm_vars, agent_vars >>

NextSweep ==
    \/ Tier2Detect

SpecSweep == Init /\ [][NextSweep]_vars

(***************************************************************************)
(* A client that calls is_pathological_input_early directly, as            *)
(* test_pathological_direct.py does                                        *)
(***************************************************************************)

\* is_pathological_input_early(text) for a text of the model.
GateCall ==
    /\ \E i \in TextIds :
          probe' = [NoProbe EXCEPT !.op = "gate", !.text = i,
                                   !.gate = is_pathological_input_early(Texts[i])]
    /\ UNCHANGED << tier_stats, config_vars, policy_file, harm_db, call, ncalls,
                    last_op, stats_before, api_vars, harm_vars, agent_vars >>

NextGate ==
    \/ GateCall

SpecGate == Init /\ [][NextGate]_vars

(***************************************************************************)
(* A client that repeats a text, with the same or another context, from    *)
(* the main thread or from a worker thread                                 *)
(***************************************************************************)

Contexts == {"None", "{}", "{domain: medical}"}
RepeatTexts == {2, 13}
RepeatMatchSets == {{}, {3}, {1, 4}}
RepeatProfiles ==
    {p \in SimProfiles :
        /\ \A c \in SweepClassNames \ {"prompt_injection", "fabricated_fact"} :
              p[c] = Sim(0)
        /\ p["prompt_injection"] \in {Sim(3), Sim(14)}
        /\ p["fabricated_fact"] \in {Sim(3), Sim(45)}}

RepeatAnswers ==
    {a \in AgentAnswers : a.raised \/ a.reasoning \in {"benign request", "injection attempt"}}

Tier2Repeat == Tier2Outcomes(RepeatProfiles)

\* What _tier1_detect can give for each text under each pattern set and
\* platform, over the calling threads and the searches the timer interrupts:
\* triples << text, env, result >>.
RepeatOutcomes ==
    UNION { { << i, RegexEnv(m, sigalrm),
                 tier1_detect(Texts[i],
                     safe_regex_search(m, sigalrm, main_thread, timed_out)) >> :
                i \in RepeatTexts, sigalrm \in BOOLEAN, main_thread \in BOOLEAN,
                timed_out \in SUBSET m } :
            m \in RepeatMatchSets }

\* evaluate_response(text, context): the pattern searches of _tier1_detect
\* go through _safe_regex_search in the calling thread.
EvaluateWith(outcomes) ==
    /\ NoCallRunning
    /\ ncalls < MaxCalls
    /\ \E o \in outcomes, c \in Contexts : BeginCallWith(1, o[1], c, o[2], o[3])
    /\ last_op' = "call"
    /\ UNCHANGED << tier_stats, config_vars, policy_file, harm_db, stats_before,
                    api_vars, harm_vars, probe, agent_vars >>

NextRepeat ==
    \/ EvaluateWith(RepeatOutcomes)
    \/ RecordLoad(1)
    \/ RecordStore(1)
    \/ Tier2Step(1, Tier2Repeat)
    \/ Tier3Step(1, RepeatAnswers)

SpecRepeat == Init /\ [][NextRepeat]_vars

(***************************************************************************)
(* The policy file changes between the calls of a sequential client        *)
(***************************************************************************)

\* The texts, pattern matches, sweeps and agent answers of this client.
ReloadTexts == {2, 9, 13}
ReloadHitSets == {{}, {1}, {4}, {5}}
ReloadProfiles ==
    {p \in SimProfiles :
        /\ \A c \in SweepClassNames \ {"prompt_injection", "fabricated_fact"} :
              p[c] = Sim(0)
        /\ p["prompt_injection"] \in {Sim(0), Sim(5), Sim(14)}
        /\ p["fabricated_fact"] \in {Sim(0), Sim(45)}}
ReloadAnswers ==
    {a \in AgentAnswers : a.raised \/ a.reasoning \in {"benign request", ""}}

Tier1Reload == Tier1Outcomes(ReloadHitSets)
Tier2Reload == Tier2Outcomes(ReloadProfiles)

\* The bytes of the policy file on disk change (an editor, a deployment).
PolicyFileChange ==
    /\ NoCallRunning
    /\ \E f \in DOMAIN PolicyFiles : f # policy_file /\ policy_file' = f
    /\ last_op' = "edit"
    /\ UNCHANGED << tier_stats, config_vars, harm_db, call, ncalls, stats_before,
                    api_vars, harm_vars, probe, agent_vars >>

\* get_harm_db().reload_if_changed(), called by the client itself.  A
\* ValueError of load_from_policy leaves the attributes as the failed load
\* left them.
ReloadIfChanged ==
    /\ NoCallRunning
    /\ harm_db' = reload_if_changed(harm_db, policy_file).db
    /\ last_op' = "reload"
    /\ UNCHANGED << tier_stats, config_vars, policy_file, call, ncalls, stats_before,
                    api_vars, harm_vars, probe, agent_vars >>

NextReload ==
    \/ Evaluate(ReloadTexts, Tier1Reload)
    \/ RecordLoad(1)
    \/ RecordStore(1)
    \/ Tier2Step(1, Tier2Reload)
    \/ Tier3Step(1, ReloadAnswers)
    \/ PolicyFileChange
    \/ ReloadIfChanged

SpecReload == Init /\ [][NextReload]_vars

(***************************************************************************)
(* HarmVectorDB under threads: one thread reloads, one calls detect_harm.  *)
(* A step is the code between two accesses of the attributes or the file.  *)
(***************************************************************************)

HarmThreshold == 55
HarmMinLen == 10
\* detect_harm calls of the model.
MaxQueries == 2
\* The texts given to detect_harm, and the scores a search returns.
HarmTexts == {2, 13}
SearchScores == {40, 60}

LoadFinished(l, raised, reloaded) ==
    [l EXCEPT !.pc = "done", !.raised = raised, !.reloaded = reloaded]

\* reload_if_changed, lines 168-169: hash the file, compare.
ReloadBegin ==
    /\ loading.pc \in {"idle", "done"}
    /\ loading' =
          IF compute_policy_hash(policy_file) # harm_db.policy_hash
          THEN [IdleLoad EXCEPT !.pc = "enter"]
          ELSE LoadFinished(IdleLoad, FALSE, "False")
    /\ UNCHANGED << tier_stats, config_vars, policy_file, harm_db, call, ncalls,
                    last_op, stats_before, api_vars, harm_call, harm_cache, probe, agent_vars >>

\* load_from_policy, lines 91-99: hash the file again, return when unchanged.
LoadEnter ==
    /\ loading.pc = "enter"
    /\ LET new_hash == compute_policy_hash(policy_file) IN
       loading' =
          IF new_hash = harm_db.policy_hash /\ harm_db.index.built
          THEN LoadFinished(loading, FALSE, "True")
          ELSE [loading EXCEPT !.new_hash = new_hash, !.pc = "parse"]
    /\ UNCHANGED << tier_stats, config_vars, policy_file, harm_db, call, ncalls,
                    last_op, stats_before, api_vars, harm_call, harm_cache, probe, agent_vars >>

\* lines 103-104: yaml.safe_load of the file on disk.
LoadParse ==
    /\ loading.pc = "parse"
    /\ loading' = [loading EXCEPT !.parsed = policy_file, !.pc = "clear_map"]
    /\ UNCHANGED << tier_stats, config_vars, policy_file, harm_db, call, ncalls,
                    last_op, stats_before, api_vars, harm_call, harm_cache, probe, agent_vars >>

\* line 107: self.harm_map = {}
LoadClearMap ==
    /\ loading.pc = "clear_map"
    /\ harm_db' = [harm_db EXCEPT !.harm_map = << >>]
    /\ loading' = [loading EXCEPT !.pc = "clear_texts"]
    /\ UNCHANGED << tier_stats, config_vars, policy_file, call, ncalls,
                    last_op, stats_before, api_vars, harm_call, harm_cache, probe, agent_vars >>

\* lines 108-109: self.example_texts = []; idx = 0
LoadClearTexts ==
    /\ loading.pc = "clear_texts"
    /\ harm_db' = [harm_db EXCEPT !.example_texts = << >>]
    /\ loading' = [loading EXCEPT !.idx = 0, !.pc = "examples"]
    /\ UNCHANGED << tier_stats, config_vars, policy_file, call, ncalls,
                    last_op, stats_before, api_vars, harm_call, harm_cache, probe, agent_vars >>

\* lines 123-137, one example: append its text, encode it, map idx to its
\* class.
LoadExample ==
    /\ loading.pc = "examples"
    /\ loading.idx < Len(PolicyFiles[loading.parsed].examples)
    /\ harm_db' = [harm_db EXCEPT
          !.example_texts = Append(@, << loading.parsed, loading.idx + 1 >>),
          !.harm_map = Append(@, PolicyFiles[loading.parsed].examples[loading.idx + 1])]
    /\ loading' = [loading EXCEPT !.idx = @ + 1]
    /\ UNCHANGED << tier_stats, config_vars, policy_file, call, ncalls,
                    last_op, stats_before, api_vars, harm_call, harm_cache, probe, agent_vars >>

\* lines 139-151 after the loops: ValueError when nothing was encoded, else
\* self.index = faiss.IndexFlatIP(dimension), an empty index.
LoadNewIndex ==
    /\ loading.pc = "examples"
    /\ loading.idx = Len(PolicyFiles[loading.parsed].examples)
    /\ IF loading.idx = 0
       THEN /\ loading' = LoadFinished(loading, TRUE, "None")
            /\ UNCHANGED harm_db
       ELSE /\ harm_db' = [harm_db EXCEPT !.index = IndexFlatIP(loading.parsed, 0)]
            /\ loading' = [loading EXCEPT !.pc = "add"]
    /\ UNCHANGED << tier_stats, config_vars, policy_file, call, ncalls,
                    last_op, stats_before, api_vars, harm_call, harm_cache, probe, agent_vars >>

\* line 154: self.index.add(embeddings_array)
LoadAdd ==
    /\ loading.pc = "add"
    /\ harm_db' = [harm_db EXCEPT !.index.ntotal = loading.idx]
    /\ loading' = [loading EXCEPT !.pc = "hash"]
    /\ UNCHANGED << tier_stats, config_vars, policy_file, call, ncalls,
                    last_op, stats_before, api_vars, harm_call, harm_cache, probe, agent_vars >>

\* line 157: self.policy_hash = new_hash, and reload_if_changed returns True.
LoadHash ==
    /\ loading.pc = "hash"
    /\ harm_db' = [harm_db EXCEPT !.policy_hash = loading.new_hash]
    /\ loading' = LoadFinished(loading, FALSE, "True")
    /\ UNCHANGED << tier_stats, config_vars, policy_file, call, ncalls,
                    last_op, stats_before, api_vars, harm_call, harm_cache, probe, agent_vars >>

\* detect_harm returns (and the lru_cache wrapper stores the result), or the
\* exception of its load_from_policy leaves it.
HarmReturn(h, result) ==
    /\ harm_call' = [h EXCEPT !.pc = "done", !.result = result]
    /\ harm_cache' = [t \in DOMAIN harm_cache \cup {h.text} |->
                        IF t = h.text THEN result ELSE harm_cache[t]]

\* detect_harm(text) is called: the lru_cache wrapper answers when it holds
\* the key.
HarmDetect ==
    /\ harm_call.pc \in {"idle", "done"}
    /\ harm_call.n < MaxQueries
    /\ \E t \in HarmTexts :
          LET h == [IdleHarmCall EXCEPT !.n = harm_call.n + 1, !.text = t] IN
          harm_call' =
             IF t \in DOMAIN harm_cache
             THEN [h EXCEPT !.pc = "done", !.from_cache = TRUE,
                            !.result = harm_cache[t]]
             ELSE [h EXCEPT !.pc = "check"]
    /\ UNCHANGED << tier_stats, config_vars, policy_file, harm_db, call, ncalls,
                    last_op, stats_before, api_vars, loading, harm_cache, probe, agent_vars >>

\* lines 194-199: load when there is no index, return for a short text.
HarmCheck ==
    /\ harm_call.pc = "check"
    /\ LET loaded == IF harm_db.index.built THEN [db |-> harm_db, raised |-> FALSE]
                     ELSE load_from_policy(harm_db, policy_file)
           text == Texts[harm_call.text]
       IN  /\ harm_db' = loaded.db
           /\ IF loaded.raised
              THEN /\ harm_call' = [harm_call EXCEPT !.pc = "done", !.raised = TRUE]
                   /\ UNCHANGED harm_cache
              ELSE IF text = << >> \/ Len(strip(text)) < HarmMinLen
              THEN HarmReturn(harm_call, HarmResult("None", 0))
              ELSE /\ harm_call' = [harm_call EXCEPT !.pc = "search"]
                   /\ UNCHANGED harm_cache
    /\ UNCHANGED << tier_stats, config_vars, policy_file, call, ncalls,
                    last_op, stats_before, api_vars, loading, probe, agent_vars >>

\* lines 203-222: encode, self.index.search(query_emb, k=1), the threshold.
\* An empty index gives vector -1 with the lowest score.
HarmSearch ==
    /\ harm_call.pc = "search"
    /\ \E idx \in (IF harm_db.index.ntotal = 0 THEN {-1}
                   ELSE 0..(harm_db.index.ntotal - 1)) :
       \E score \in (IF idx = -1 THEN {NoScore} ELSE SearchScores) :
          LET h == [harm_call EXCEPT !.searched = harm_db.index, !.idx = idx,
                                     !.score = score]
          IN  IF score >= HarmThreshold
              THEN /\ harm_call' = [h EXCEPT !.pc = "lookup"]
                   /\ UNCHANGED harm_cache
              ELSE HarmReturn(h, HarmResult("None", score))
    /\ UNCHANGED << tier_stats, config_vars, policy_file, harm_db, call, ncalls,
                    last_op, stats_before, api_vars, loading, probe, agent_vars >>

\* line 218: failure_class = self.harm_map.get(idx, "unknown_harm")
harm_map_get(harm_map, idx) ==
    IF idx + 1 \in DOMAIN harm_map THEN harm_map[idx + 1] ELSE "unknown_harm"

HarmLookup ==
    /\ harm_call.pc = "lookup"
    /\ HarmReturn([harm_call EXCEPT !.looked_up = TRUE, !.map_seen = harm_db.harm_map],
                  HarmResult(harm_map_get(harm_db.harm_map, harm_call.idx),
                             harm_call.score))
    /\ UNCHANGED << tier_stats, config_vars, policy_file, harm_db, call, ncalls,
                    last_op, stats_before, api_vars, loading, probe, agent_vars >>

NextHarm ==
    \/ PolicyFileChange
    \/ ReloadBegin
    \/ LoadEnter
    \/ LoadParse
    \/ LoadClearMap
    \/ LoadClearTexts
    \/ LoadExample
    \/ LoadNewIndex
    \/ LoadAdd
    \/ LoadHash
    \/ HarmDetect
    \/ HarmCheck
    \/ HarmSearch
    \/ HarmLookup

SpecHarm == Init /\ [][NextHarm]_vars

(***************************************************************************)
(* api/routes/detection.py: the detect endpoint                            *)
(***************************************************************************)

ApiMaxLength == 10000
ApiRepetitionLen == 50
ApiRepetitionPct == 80
ApiDiversityLen == 100
ApiDiversityChars == 5
ApiRunRepeats == 50
TagRepeats == 50
ControlRepeats == 10
ValidationConfidence == 95
TimeoutConfidence == 75

\* The characters of [\x00-\x08\x0B\x0C\x0E-\x1F] among the model's.
ControlChars == {NUL, "\f"}

\* re.sub(r'\s+', ' ', text): every run of whitespace becomes one space (the
\* first character of the run is replaced, the others are dropped).
collapse_whitespace(text) ==
    LET marked == [i \in 1..Len(text) |->
                      IF text[i] \notin Whitespace THEN text[i]
                      ELSE IF i > 1 /\ text[i - 1] \in Whitespace THEN "dropped"
                      ELSE " "]
    IN  SelectSeq(marked, LAMBDA c : c # "dropped")

\* preprocess_input that truncates the sanitized text instead of the input.
preprocess_input_truncating_last(text, max_length) ==
    IF Len(text) = 0 THEN << >>
    ELSE LET without_nul == SelectSeq(text, LAMBDA c : c # NUL)
             cleaned == strip(collapse_whitespace(without_nul))
         IN  IF Len(cleaned) > max_length
             THEN SubSeq(cleaned, 1, max_length) ELSE cleaned

preprocess_input(text, max_length) ==
    IF Len(text) = 0 THEN << >>
    ELSE LET truncated == IF Len(text) > max_length
                          THEN SubSeq(text, 1, max_length) ELSE text
             without_nul == SelectSeq(truncated, LAMBDA c : c # NUL)
         IN  strip(collapse_whitespace(without_nul))

\* re.search(r'<.*?>{50,}', text)
TagFlood(text) ==
    \E i \in 1..Len(text) : \E j \in (i + 1)..(Len(text) - TagRepeats + 1) :
        /\ text[i] = "<"
        /\ \A k \in (i + 1)..(j - 1) : text[k] # "\n"
        /\ \A k \in j..(j + TagRepeats - 1) : text[k] = ">"

\* re.search(r'[\x00-\x08\x0B\x0C\x0E-\x1F]{10,}', text)
ControlFlood(text) ==
    \E i \in 1..(Len(text) - ControlRepeats + 1) :
        \A k \in i..(i + ControlRepeats - 1) : text[k] \in ControlChars

\* is_pathological_input of the endpoint: the first element of its tuple.
is_pathological_input(text) ==
    IF Len(text) = 0 THEN FALSE
    ELSE \/ (Len(text) > ApiRepetitionLen
             /\ MostCommonCount(text) * 100 > ApiRepetitionPct * Len(text))
         \/ (Len(text) > ApiDiversityLen /\ UniqueChars(text) < ApiDiversityChars)
         \/ HasRun(text, ApiRunRepeats)
         \/ TagFlood(text)
         \/ ControlFlood(text)

\* The DetectionResponse the endpoint sends, or the HTTPException it raises.
DetectionResponse(action, tier_used, method, confidence, should_block) ==
    [status |-> 200, action |-> action, tier_used |-> tier_used, method |-> method,
     confidence |-> confidence, should_block |-> should_block]

HTTPException(status_code) ==
    [status |-> status_code, action |-> "None", tier_used |-> 0, method |-> "None",
     confidence |-> 0, should_block |-> FALSE]

validation_response ==
    DetectionResponse("block", 1, "input_validation", ValidationConfidence, TRUE)

\* The timeout branch with a response that lets the request pass.
timeout_response_allowing ==
    DetectionResponse("allow", 1, "timeout_protection", TimeoutConfidence, FALSE)

timeout_response ==
    DetectionResponse("block", 1, "timeout_protection", TimeoutConfidence, TRUE)

result_response(result) ==
    DetectionResponse(result.action, result.tier_used, result.method,
                      result.confidence, result.action = "block")

\* The catalogue text equal to a string.
TextId(s) == CHOOSE i \in TextIds : Texts[i] = s

\* The requests, pattern matches, sweeps and agent answers of the endpoint's
\* clients.
ApiTexts == {3, 9, 11, 13}
ApiHitSets == {{}, {1}, {5}}
ApiProfiles ==
    {p \in SimProfiles :
        /\ \A c \in SweepClassNames \ {"prompt_injection", "fabricated_fact"} :
              p[c] = Sim(0)
        /\ p["prompt_injection"] \in {Sim(3), Sim(5)}
        /\ p["fabricated_fact"] = Sim(3)}
ApiAnswers == {a \in AgentAnswers : a.raised \/ a.reasoning = "injection attempt"}

Tier1Api == Tier1Outcomes(ApiHitSets)
Tier2Api == Tier2Outcomes(ApiProfiles)

Respond(h, response) ==
    [h EXCEPT !.pc = "done", !.responses = Append(@, response)]

\* detect, from the request to "await asyncio.wait_for(detection_task, ...)":
\* the rate limit, preprocess_input, the input validation, create_task.
Detect(r, texts) ==
    /\ handler[r].pc = "new"
    /\ \E text \in texts : \E allowed \in BOOLEAN :
          LET preprocessed_text == preprocess_input(Texts[text], ApiMaxLength)
          IN  IF ~allowed
              THEN /\ handler' = [handler EXCEPT ![r] = Respond(@, HTTPException(429))]
                   /\ task' = task
              ELSE IF is_pathological_input(preprocessed_text)
              THEN /\ handler' = [handler EXCEPT ![r] = Respond(@, validation_response)]
                   /\ task' = task
              ELSE /\ handler' = [handler EXCEPT ![r].pc = "waiting",
                                                 ![r].text = TextId(preprocessed_text)]
                   /\ task' = [task EXCEPT ![r] = "queued"]
    /\ UNCHANGED << tier_stats, config_vars, policy_file, harm_db, call, ncalls,
                    last_op, stats_before, harm_vars, probe, agent_vars >>

\* asyncio.to_thread: a worker thread of the executor takes the queued call
\* and enters evaluate_response.
ThreadStart(r, outcomes) ==
    /\ task[r] = "queued"
    /\ call[r].pc = "idle"
    /\ \E o \in outcomes : o[1] = handler[r].text /\ BeginCall(r, o[1], o[2])
    /\ task' = [task EXCEPT ![r] = "running"]
    /\ UNCHANGED << tier_stats, config_vars, policy_file, harm_db, last_op,
                    stats_before, handler, harm_vars, probe, agent_vars >>

\* The thread has returned from evaluate_response: the event loop sets the
\* result of the task, unless the task was cancelled meanwhile.
TaskDone(r) ==
    /\ task[r] = "running"
    /\ call[r].pc = "done"
    /\ task' = [task EXCEPT ![r] = "finished"]
    /\ UNCHANGED << tier_stats, config_vars, policy_file, harm_db, call, ncalls,
                    last_op, stats_before, handler, harm_vars, probe, agent_vars >>

\* wait_for returns the result: the response is built from the verdict.
DetectReturn(r) ==
    /\ handler[r].pc = "waiting"
    /\ task[r] = "finished"
    /\ handler' = [handler EXCEPT ![r] =
                      Respond(@, result_response(call[r].result.verdict))]
    /\ UNCHANGED << tier_stats, config_vars, policy_file, harm_db, call, ncalls,
                    last_op, stats_before, task, harm_vars, probe, agent_vars >>

\* The 15 s pass before the task is done: wait_for cancels the task, waits
\* until it is cancelled and raises TimeoutError.  A call that a thread has
\* entered goes on in its thread.
WaitForTimeout(r) ==
    /\ handler[r].pc = "waiting"
    /\ task[r] \in {"queued", "running"}
    /\ task' = [task EXCEPT ![r] = "cancelled"]
    /\ handler' = [handler EXCEPT ![r].pc = "timeout", ![r].timed_out = TRUE]
    /\ UNCHANGED << tier_stats, config_vars, policy_file, harm_db, call, ncalls,
                    last_op, stats_before, harm_vars, probe, agent_vars >>

\* except asyncio.TimeoutError: detection_task.cancel()
TimeoutCancel(r) ==
    /\ handler[r].pc = "timeout"
    /\ task' = [task EXCEPT ![r] = IF @ \in {"queued", "running"} THEN "cancelled" ELSE @]
    /\ handler' = [handler EXCEPT ![r].pc = "cancel_called",
                                  ![r].log = Append(@, "cancel")]
    /\ UNCHANGED << tier_stats, config_vars, policy_file, harm_db, call, ncalls,
                    last_op, stats_before, harm_vars, probe, agent_vars >>

\* try: await detection_task  except asyncio.CancelledError: pass
TimeoutAwait(r) ==
    /\ handler[r].pc = "cancel_called"
    /\ task[r] \in {"cancelled", "finished"}
    /\ handler' = [handler EXCEPT ![r].pc = "awaited", ![r].log = Append(@, "await")]
    /\ UNCHANGED << tier_stats, config_vars, policy_file, harm_db, call, ncalls,
                    last_op, stats_before, task, harm_vars, probe, agent_vars >>

\* return DetectionResponse(action="block", ..., method="timeout_protection")
TimeoutRespond(r) ==
    /\ handler[r].pc = "awaited"
    /\ handler' = [handler EXCEPT ![r] =
                      Respond([@ EXCEPT !.log = Append(@, "respond")], timeout_response)]
    /\ UNCHANGED << tier_stats, config_vars, policy_file, harm_db, call, ncalls,
                    last_op, stats_before, task, harm_vars, probe, agent_vars >>

NextApi ==
    \E r \in Threads :
        \/ Detect(r, ApiTexts)
        \/ ThreadStart(r, Tier1Api)
        \/ RecordLoad(r)
        \/ RecordStore(r)
        \/ Tier2Step(r, Tier2Api)
        \/ Tier3Step(r, ApiAnswers)
        \/ TaskDone(r)
        \/ DetectReturn(r)
        \/ WaitForTimeout(r)
        \/ TimeoutCancel(r)
        \/ TimeoutAwait(r)
        \/ TimeoutRespond(r)

SpecApi == Init /\ [][NextApi]_vars

(***************************************************************************)
(* A client that sanitizes a text and sanitizes the result again           *)
(***************************************************************************)

\* The texts: every string of at most MaxTextLen characters over a letter,
\* two whitespace characters and the NUL byte; the maximum lengths: below,
\* at and above the lengths of the texts.
MaxTextLen == 4
PreprocessChars == {"a", " ", "\t", NUL}
PreprocessTexts == UNION {[1..n -> PreprocessChars] : n \in 0..MaxTextLen}
MaxLengths == {1, 2, 3, 10}

\* The client holds a text and a maximum length.
InitPreprocess ==
    /\ tier_stats = reset_stats
    /\ tier2_available \in BOOLEAN
    /\ tier3_available \in BOOLEAN
    /\ policy_file \in LoadableFiles
    /\ tower_policy = policy_file
    /\ harm_db = load_from_policy(EmptyHarmDB, policy_file).db
    /\ call = [t \in Threads |-> IdleCall]
    /\ ncalls = 0
    /\ last_op = "init"
    /\ stats_before = reset_stats
    /\ handler = [r \in Threads |-> IdleHandler]
    /\ task = [r \in Threads |-> "none"]
    /\ loading = IdleLoad
    /\ harm_call = IdleHarmCall
    /\ harm_cache = << >>
    /\ probe \in { [NoProbe EXCEPT !.op = "text", !.first = text, !.raw = text,
                                     !.max_length = m] :
                      text \in PreprocessTexts, m \in MaxLengths }
    /\ ctx = AgentContext(DefaultMaxSteps)
    /\ acts = << >>

\* preprocess_input(text, max_length) on the text the client holds.
Preprocess ==
    /\ probe.op = "text"
    /\ probe' = [probe EXCEPT !.op = "preprocess",
                               !.out = preprocess_input(probe.raw, probe.max_length)]
    /\ UNCHANGED << tier_stats, config_vars, policy_file, harm_db, call, ncalls,
                    last_op, stats_before, api_vars, harm_vars, agent_vars >>

\* preprocess_input(sanitized, max_length) on the value of the first call.
PreprocessAgain ==
    /\ probe.op = "preprocess"
    /\ probe' = [probe EXCEPT !.op = "preprocess_again", !.raw = probe.out,
                               !.out = preprocess_input(probe.out, probe.max_length)]
    /\ UNCHANGED << tier_stats, config_vars, policy_file, harm_db, call, ncalls,
                    last_op, stats_before, api_vars, harm_vars, agent_vars >>

NextPreprocess ==
    \/ Preprocess
    \/ PreprocessAgain

SpecPreprocess == InitPreprocess /\ [][NextPreprocess]_vars

(***************************************************************************)
(* agent/safe_agent.py: act calls on one SafeAgent.  A step is the code    *)
(* between two awaits.                                                     *)
(***************************************************************************)

MaxActs == 5
\* The max_steps of the agent's context, the prompts and the action names
\* of the calls, and what OllamaInterceptor.call returns (the text, or None).
MaxStepsValues == {0, 1, 2, 3}
AgentPrompts == {1, 2}
ActionNames == {"search"}
InterceptorAnswers == {"text", "None"}

\* An act call: the prompt it was given and the prompt the interceptor
\* received (0: the interceptor was not called), the dict it returned.
ActCall(prompt, forwarded, status, reason) ==
    [prompt |-> prompt, forwarded |-> forwarded, status |-> status,
     reason |-> reason, step |-> 0, response |-> "None"]

\* SafeAgent.__init__ (with ctx.max_steps set by the caller), beside a tower.
InitAgent ==
    /\ tier_stats = reset_stats
    /\ tier2_available \in BOOLEAN
    /\ tier3_available \in BOOLEAN
    /\ policy_file \in LoadableFiles
    /\ tower_policy = policy_file
    /\ harm_db = load_from_policy(EmptyHarmDB, policy_file).db
    /\ call = [t \in Threads |-> IdleCall]
    /\ ncalls = 0
    /\ last_op = "init"
    /\ stats_before = reset_stats
    /\ handler = [r \in Threads |-> IdleHandler]
    /\ task = [r \in Threads |-> "none"]
    /\ loading = IdleLoad
    /\ harm_call = IdleHarmCall
    /\ harm_cache = << >>
    /\ probe = NoProbe
    /\ ctx \in {AgentContext(n) : n \in MaxStepsValues}
    /\ acts = << >>

\* act, lines 21-38: record_action, the guard's check, and either the
\* blocked dict or the call of the interceptor, which is awaited.
Act ==
    /\ Len(acts) < MaxActs
    /\ \E prompt \in AgentPrompts, action_name \in ActionNames :
          LET guard_result == check(record_action(ctx, action_name)) IN
          /\ ctx' = guard_result.after
          /\ acts' = Append(acts,
                IF guard_result.blocked
                THEN ActCall(prompt, 0, "blocked", guard_result.reason)
                ELSE ActCall(prompt, prompt, "awaiting", "None"))
    /\ UNCHANGED << tier_stats, config_vars, policy_file, harm_db, call, ncalls,
                    last_op, stats_before, api_vars, harm_vars, probe >>

\* act, lines 35-45: the interceptor returns and act returns the allowed
\* dict with the context's current step.
ActReturn ==
    /\ \E k \in DOMAIN acts :
          /\ acts[k].status = "awaiting"
          /\ \E text \in InterceptorAnswers :
                acts' = [acts EXCEPT ![k] =
                           [@ EXCEPT !.status = "allowed", !.step = ctx.current_step,
                                     !.response = text]]
    /\ UNCHANGED << tier_stats, config_vars, policy_file, harm_db, call, ncalls,
                    last_op, stats_before, api_vars, harm_vars, probe, ctx >>

NextAgent ==
    \/ Act
    \/ ActReturn

SpecAgent == InitAgent /\ [][NextAgent]_vars

(***************************************************************************)
(* Properties of the sequential client (Spec)                              *)
(***************************************************************************)

\* The last operation of the client was a call, and it has returned.
CallDone == last_op = "call" /\ call[1].pc = "done"

Verdict == call[1].result.verdict

\* The per-tier keys among the keys a call has incremented.
TierKeys(counted) == SelectSeq(counted, LAMBDA k : k # "total")

\* The gate as the documentation states it: any of the four conditions.
PathologicalGate(text) ==
    \/ ExcessiveRepetition(text)
    \/ LowDiversity(text)
    \/ RepeatedChar(text)
    \/ AttackSignature(text)

\* C1: a request routed to Tier 2 whose Tier 2 result has a confidence in
\* [0.05, 0.15), with Tier 3 available, returns a verdict with tier_used = 3.
C1_EscalationReportsTier3 ==
    ( /\ CallDone
      /\ call[1].tier = 2
      /\ call[1].tier2_called
      /\ 5 <= call[1].tier2_result.confidence
      /\ call[1].tier2_result.confidence < 15
      /\ tier3_available )
    => Verdict.tier_used = 3

\* C2: on every input on which the pathological gate holds, evaluate_response
\* returns BLOCK with method regex_pathological, and neither Tier 2 nor Tier 3
\* is invoked.
C2_GateBlocksEarly ==
    (CallDone /\ PathologicalGate(Texts[call[1].text]))
    => /\ call[1].result.outcome = "returned"
       /\ Verdict.action = "block"
       /\ Verdict.method = "regex_pathological"
       /\ ~call[1].tier2_called
       /\ ~call[1].tier3_called

\* C3: evaluate_response never raises to its caller; when an internal step
\* raised, it returns ALLOW with method error_fallback and confidence 0.5.
C3_NeverRaises ==
    \A t \in Threads :
        call[t].pc = "done" =>
            /\ call[t].result.outcome = "returned"
            /\ call[t].result.step_raised =>
                  /\ call[t].result.verdict.action = "allow"
                  /\ call[t].result.verdict.method = "error_fallback"
                  /\ call[t].result.verdict.confidence = 50

\* C3, the case: a call in which a step raised has completed.
C3_Witness == \E t \in Threads : call[t].pc = "done" /\ call[t].result.step_raised

\* C4: every call increases total by exactly 1 and exactly one of the three
\* per-tier counters by exactly 1, whatever its outcome.
C4_EveryCallCountedOnce ==
    CallDone =>
        LET before == call[1].stats_at_start
            grown == {k \in {"tier1", "tier2", "tier3"} : tier_stats[k] # before[k]}
        IN  /\ tier_stats.total = before.total + 1
            /\ \E k \in {"tier1", "tier2", "tier3"} :
                  /\ grown = {k}
                  /\ tier_stats[k] = before[k] + 1

\* C5: the per-tier counter incremented for a completed call is the counter
\* of the verdict's tier_used; an escalated request is counted under Tier 3.
C5_CounterMatchesTierUsed ==
    CallDone => TierKeys(call[1].counted) = << StatKey(Verdict.tier_used) >>

\* C6: with no call in progress, after any sequence of completed calls and
\* resets, get_tier_stats reports total = tier1_count + tier2_count +
\* tier3_count.
C6_TotalIsSum ==
    NoCallRunning =>
        LET report == get_tier_stats(tier_stats)
        IN  report.total = report.tier1_count + report.tier2_count + report.tier3_count

\* C6, the case: a counted call, a reset, and another counted call.
C6_Witness ==
    /\ NoCallRunning
    /\ last_op = "call"
    /\ stats_before.total > 0
    /\ tier_stats.total > 0

\* C7: after reset_tier_stats, total and the three per-tier counters are 0,
\* whatever they were before, and the reported percentages are all 0.
C7_ResetClears ==
    last_op = "reset" =>
        LET report == get_tier_stats(tier_stats)
        IN  /\ report.total = 0
            /\ report.tier1_count = 0
            /\ report.tier2_count = 0
            /\ report.tier3_count = 0
            /\ report.distribution.tier1_pct = ZeroPct
            /\ report.distribution.tier2_pct = ZeroPct
            /\ report.distribution.tier3_pct = ZeroPct

\* C7, the case: a reset of counters that were not 0.
C7_Witness ==
    /\ last_op = "reset"
    /\ stats_before.total = 2
    /\ stats_before.tier2 > 0
    /\ stats_before.tier3 > 0

(***************************************************************************)
(* Properties of the client that edits the policy file (SpecReload)        *)
(***************************************************************************)

\* C10: when the policy file changed before a call, the call detects the
\* changed hash and is served against a policy and an index rebuilt from the
\* file that was on disk when it began.
C10_ServedFromFileOnDisk ==
    (CallDone /\ call[1].file_at_start \in LoadableFiles)
    => /\ tower_policy = call[1].file_at_start
       /\ harm_db.policy_hash = compute_policy_hash(call[1].file_at_start)
       /\ harm_db.index.file = call[1].file_at_start

(***************************************************************************)
(* Properties of the endpoint and its worker threads (SpecApi)             *)
(***************************************************************************)

\* The calls that reached the router.
Routed == {t \in Threads : call[t].pc # "idle" /\ call[t].tier # 0}

\* C8: concurrent calls lose no statistics update: once all N calls that
\* reached the router have finished, total = N and the per-tier counters sum
\* to N.
C8_NoLostUpdate ==
    (\A t \in Threads : call[t].pc \in {"idle", "done"})
    => /\ tier_stats.total = Cardinality(Routed)
       /\ tier_stats.tier1 + tier_stats.tier2 + tier_stats.tier3 = Cardinality(Routed)

\* C9: when the deadline fires, the handler cancels the task, then awaits
\* it, and only then responds block / timeout_protection / 0.75; the request
\* gets no other response.
C9_TimeoutCleanupThenBlock ==
    \A r \in Threads :
        handler[r].timed_out =>
            /\ \E n \in 0..3 : handler[r].log = SubSeq(<< "cancel", "await", "respond" >>, 1, n)
            /\ Len(handler[r].responses) = (IF handler[r].pc = "done" THEN 1 ELSE 0)
            /\ handler[r].pc = "done" =>
                  /\ handler[r].log = << "cancel", "await", "respond" >>
                  /\ handler[r].responses[1].status = 200
                  /\ handler[r].responses[1].action = "block"
                  /\ handler[r].responses[1].should_block
                  /\ handler[r].responses[1].method = "timeout_protection"
                  /\ handler[r].responses[1].confidence = 75
            /\ "await" \in {handler[r].log[i] : i \in DOMAIN handler[r].log} =>
                  task[r] \in {"cancelled", "finished"}

\* C9, the case: the deadline fired while the call ran in its thread, and
\* the request has been answered.
C9_Witness ==
    \E r \in Threads :
        /\ handler[r].timed_out
        /\ handler[r].pc = "done"
        /\ call[r].pc # "idle"

(***************************************************************************)
(* Properties of the HarmVectorDB under threads (SpecHarm)                 *)
(***************************************************************************)

\* C11: a detect_harm call that names a class observed one snapshot: the
\* harm_map it read is the map of the policy file whose index it searched,
\* and the class is never "unknown_harm".
C11_OneSnapshot ==
    (harm_call.pc = "done" /\ harm_call.looked_up)
    => /\ harm_call.map_seen = PolicyFiles[harm_call.searched.file].examples
       /\ harm_call.result.failure_class # "unknown_harm"

(***************************************************************************)
(* Properties of the TierRouter called directly (SpecRouter)               *)
(***************************************************************************)

\* C12: route returns tier 1 for every result with confidence >= 0.80,
\* whatever its method.
C12_Tier1ByConfidenceAlone ==
    (probe.op = "route" /\ probe.arg.confidence >= 80) => probe.ret = 1

\* C13: route returns tier 2 for every result with 0.15 <= confidence < 0.80.
C13_Tier2From15 ==
    (probe.op = "route" /\ 15 <= probe.arg.confidence /\ probe.arg.confidence < 80)
    => probe.ret = 2

\* C13, amended: route returns tier 2 for every result with
\* 0.30 < confidence < 0.80, whatever its method.
C13_Tier2Above30 ==
    (probe.op = "route" /\ tier1_weak < probe.arg.confidence
        /\ probe.arg.confidence < tier1_strong)
    => probe.ret = 2

C13_Witness ==
    /\ probe.op = "route"
    /\ probe.arg.confidence = 31
    /\ probe.arg.method = "regex_strong"
    /\ probe.ret = 2

(***************************************************************************)
(* Properties of the verdicts of the sequential client (Spec)              *)
(***************************************************************************)

\* The text of the call has fewer than three characters after trimming.
ShortText == Len(strip(Texts[call[1].text])) < ShortLen

\* C14: for every text whose trimmed length is 0, 1 or 2, evaluate_response
\* returns ALLOW with method regex_skipped and confidence 0.5.
C14_ShortTextSkipped ==
    (CallDone /\ ShortText)
    => /\ Verdict.action = "allow"
       /\ Verdict.method = "regex_skipped"
       /\ Verdict.confidence = 50

RepeatedText ==
    /\ CallDone
    /\ call[1].earlier.valid
    /\ call[1].earlier.text = call[1].text
    /\ call[1].earlier.regex_env = call[1].regex_env

\* The semantic index gave both calls the same answers, when both asked.
SameIndexAnswers ==
    (call[1].earlier.tier2_called /\ call[1].tier2_called)
    => call[1].earlier.tier2_result = call[1].tier2_result

C18_SameInputSameDecision ==
    ( /\ RepeatedText
      /\ call[1].earlier.context_arg = call[1].context_arg
      /\ SameIndexAnswers
      /\ ~tier3_available )
    => /\ call[1].earlier.verdict.action = Verdict.action
       /\ call[1].earlier.verdict.failure_class = Verdict.failure_class
       /\ call[1].earlier.verdict.method = Verdict.method

(***************************************************************************)
(* Properties of the client that asks for the health (SpecHealth)           *)
(***************************************************************************)

\* The share of a tier lies in [low, high] percent, as exact fractions.
ShareIn(count, total, low, high) ==
    low * total <= count * 100 /\ count * 100 <= high * total

\* The share of a tier lies in [low, high) percent, as exact fractions.
ShareBelow(count, total, low, high) ==
    low * total <= count * 100 /\ count * 100 < high * total

\* C19: check_distribution_health reports healthy whenever total < 100,
\* and from 100 requests on it reports healthy exactly when the Tier 1 share
\* is in [90%, 98%], the Tier 2 share in [2%, 8%] and the Tier 3 share in
\* [0%, 5%].
C19_HealthyRangesAsStated ==
    probe.op = "health" =>
        probe.health.is_healthy =
            \/ tier_stats.total < 100
            \/ /\ ShareIn(tier_stats.tier1, tier_stats.total, 90, 98)
               /\ ShareIn(tier_stats.tier2, tier_stats.total, 2, 8)
               /\ ShareIn(tier_stats.tier3, tier_stats.total, 0, 5)

\* C19, as the code has it: healthy whenever total < 100, and from 100
\* requests on healthy exactly when the Tier 1 share is in [92%, 98%], the
\* Tier 2 share is at least 2% and below 7%, and the Tier 3 share is in
\* [0%, 3%].
C19_HealthyRanges ==
    probe.op = "health" =>
        probe.health.is_healthy =
            \/ tier_stats.total < 100
            \/ /\ ShareIn(tier_stats.tier1, tier_stats.total, 92, 98)
               /\ ShareBelow(tier_stats.tier2, tier_stats.total, 2, 7)
               /\ ShareIn(tier_stats.tier3, tier_stats.total, 0, 3)

\* C19, the case: a check of 200 requests with every share inside its range,
\* the Tier 1 share on its lower bound.
C19_Witness ==
    /\ probe.op = "health"
    /\ tier_stats = [tier1 |-> 184, tier2 |-> 10, tier3 |-> 6, total |-> 200]
    /\ probe.health.is_healthy

(***************************************************************************)
(* Properties of the client that calls the gate (SpecGate)                 *)
(***************************************************************************)

\* C20: the confidence of a verdict with method regex_pathological, which is
\* the confidence the pathological gate returns, is 0.95 for each of the four
\* gate conditions, the attack signatures included.
C20_GateConfidence ==
    (probe.op = "gate" /\ probe.gate.is_pathological)
    => probe.gate.confidence = 95

(***************************************************************************)
(* Properties of the mapping from tier results to verdicts (Spec)          *)
(***************************************************************************)

\* The call of thread 1 is done and a tier result was taken as final.
HasFinalResult == CallDone /\ call[1].final_result.method # "None"

\* C21: evaluate_response maps the final tier result to the verdict: with a
\* failure class, action and severity are those of the policy entry of the
\* class; without one, WARN and MEDIUM when should_allow is False, and
\* otherwise ALLOW with no severity.
C21_VerdictFromFinalResult ==
    HasFinalResult =>
        LET final == call[1].final_result
            entries == PolicyFiles[tower_policy].entries
        IN  IF final.failure_class # "None"
            THEN final.failure_class \in DOMAIN entries =>
                    /\ Verdict.action = entries[final.failure_class].action
                    /\ Verdict.severity = entries[final.failure_class].severity
            ELSE IF final.should_allow = "False"
            THEN Verdict.action = "warn" /\ Verdict.severity = "medium"
            ELSE Verdict.action = "allow" /\ Verdict.severity = "None"

\* C21, the case: Tier 2 detected a class, its result names none, and the
\* verdict is the warning.
C21_Witness ==
    /\ HasFinalResult
    /\ call[1].final_result.method = "semantic"
    /\ call[1].final_result.failure_class = "None"
    /\ call[1].final_result.should_allow = "False"
    /\ Verdict.action = "warn"

(***************************************************************************)
(* Properties of the client that calls _tier2_detect (SpecSweep)           *)
(***************************************************************************)

\* What the detector gave for the class of name cls in the probed call.
ProbedDetect(cls) ==
    LET t == IF Len(Texts[probe.text]) > SemanticTruncLen
             THEN SubSeq(Texts[probe.text], 1, SemanticTruncLen)
             ELSE Texts[probe.text]
        c == CHOOSE x \in {SweepClasses[i] : i \in DOMAIN SweepClasses} : x.class = cls
    IN  detect(t, probe.sims[cls], c.threshold)

\* The classes whose score cleared their own threshold in the probed call.
Cleared == {cls \in SweepClassNames : ProbedDetect(cls).detected}

\* The greatest score of the classes in the set, 0 for the empty set.
MaxScore(classes) ==
    IF classes = {} THEN 0
    ELSE LET best == CHOOSE b \in classes :
                        \A o \in classes :
                            ProbedDetect(o).confidence <= ProbedDetect(b).confidence
         IN  ProbedDetect(best).confidence

\* C22: when a class cleared its threshold, the Tier 2 result reports a
\* class that cleared its threshold and has the maximum score among those,
\* with that class's own score as confidence; when no class cleared its
\* threshold, the result has should_allow True and the maximum score as
\* confidence.
C22_SweepReportsBestCleared ==
    probe.op = "tier2" =>
        IF Cleared # {}
        THEN /\ probe.arg.failure_class \in Cleared
             /\ ProbedDetect(probe.arg.failure_class).confidence = MaxScore(Cleared)
             /\ probe.arg.confidence = ProbedDetect(probe.arg.failure_class).confidence
        ELSE /\ probe.arg.should_allow = "True"
             /\ probe.arg.confidence =
                    MaxScore({cls \in SweepClassNames : ~ProbedDetect(cls).raised})


\* C23: if the semantic detector raises for one class or for every class
\* while _tier2_detect runs, the Tier 2 result has no failure class,
\* confidence 0.5 and method semantic_error.
C23_DetectorErrorIsSemanticError ==
    (probe.op = "tier2" /\ \E cls \in SweepClassNames : probe.sims[cls].raised)
    => /\ probe.arg.failure_class = "None"
       /\ probe.arg.confidence = 50
       /\ probe.arg.method = "semantic_error"

(***************************************************************************)
(* Properties of the Tier 3 fallbacks (Spec)                               *)
(***************************************************************************)

\* The router sent the completed call of thread 1 to Tier 3, and Tier 3 was
\* unavailable or llm_agent.analyze raised.
Tier3Failed ==
    /\ CallDone
    /\ call[1].tier = 3
    /\ call[1].tier3_called
    /\ (~tier3_available \/ call[1].agent_raised)

\* C24: when a request is routed to Tier 3 and Tier 3 is unavailable or the
\* agent call fails, the verdict is ALLOW with confidence 0.5, method
\* llm_unavailable and tier_used 3, and no error reaches the caller.
C24_Tier3FailureIsUnavailable ==
    Tier3Failed =>
        /\ call[1].result.outcome = "returned"
        /\ Verdict.action = "allow"
        /\ Verdict.confidence = 50
        /\ Verdict.method = "llm_unavailable"
        /\ Verdict.tier_used = 3

\* C24, as the code has it: the verdict is ALLOW with confidence 0.5 and
\* tier_used 3 and no error reaches the caller; the method is llm_unavailable
\* when Tier 3 is unavailable and llm_error when the agent call raised.
C24_Tier3FailureAllows ==
    Tier3Failed =>
        /\ call[1].result.outcome = "returned"
        /\ Verdict.action = "allow"
        /\ Verdict.confidence = 50
        /\ Verdict.method = IF tier3_available THEN "llm_error" ELSE "llm_unavailable"
        /\ Verdict.tier_used = 3

\* C24, the case: the router sent a call to Tier 3 and the agent raised.
C24_Witness ==
    /\ Tier3Failed
    /\ tier3_available
    /\ call[1].agent_raised
    /\ Verdict.method = "llm_error"

(***************************************************************************)
(* Properties of the Tier 1 pattern loops (SpecRepeat)                     *)
(***************************************************************************)

\* _tier1_detect takes the text to its pattern loops: it is not too short,
\* not pathological and not too long.
ReachesPatterns(text) ==
    /\ ~(Len(text) = 0 \/ Len(strip(text)) < ShortLen)
    /\ ~is_pathological_input_early(text).is_pathological
    /\ Len(text) <= DosLen

\* The allow-patterns whose regex matches the text of the call of thread 1.
MatchingAllows ==
    {i \in call[1].regex_env.matching : patterns[i].failure_class = "None"}

\* C25: in Tier 1, if any allow-pattern matches the text, the result is
\* regex_anti with should_allow True and the confidence of the first matching
\* allow-pattern in library order, even when block-patterns match too.
C25_AllowPatternWins ==
    ( /\ call[1].pc # "idle"
      /\ ReachesPatterns(Texts[call[1].text])
      /\ MatchingAllows # {} )
    => LET first == CHOOSE i \in MatchingAllows : \A j \in MatchingAllows : i <= j
       IN  /\ call[1].tier1_result.method = "regex_anti"
           /\ call[1].tier1_result.should_allow = "True"
           /\ call[1].tier1_result.confidence = patterns[first].confidence

(***************************************************************************)
(* Properties of the client that sanitizes twice (SpecPreprocess)          *)
(***************************************************************************)

\* C26: preprocess_input is idempotent: for every text and maximum length,
\* sanitizing the sanitized text gives the sanitized text, also for texts
\* longer than the maximum and texts with NUL bytes or whitespace runs
\* around the truncation point.
C26_PreprocessIdempotent ==
    probe.op = "preprocess_again" => probe.out = probe.raw

\* C26, the case: a text longer than the maximum length, with a whitespace
\* run and a NUL byte at the truncation point, was sanitized twice.
C26_Witness ==
    /\ probe.op = "preprocess_again"
    /\ probe.max_length = 3
    /\ probe.first = <<"a", " ", NUL, "\t">>
    /\ probe.raw = <<"a">>
    /\ probe.out = <<"a">>

(***************************************************************************)
(* Properties of a request after its timeout response (SpecApi)            *)
(***************************************************************************)

\* C27: after the endpoint has returned the timeout_protection response of
\* a request, the cancelled evaluation of that request performs no further
\* step: it invokes no further tier and does not change tier_stats.
C27_CancelledEvaluationStops ==
    [][\A r \in Threads :
          (handler[r].pc = "done" /\ handler[r].timed_out)
          => /\ call'[r].tier2_called = call[r].tier2_called
             /\ call'[r].tier3_called = call[r].tier3_called
             /\ call'[r].counted = call[r].counted]_vars


\* C28: when load_from_policy raises after the policy file changed, the
\* HarmVectorDB keeps its previous snapshot: index, harm_map, example_texts
\* and policy_hash are what they were before the call.
C28_FailedLoadKeepsSnapshot ==
    [][(last_op' = "reload" /\ reload_if_changed(harm_db, policy_file).raised)
         => harm_db' = harm_db]_vars


(***************************************************************************)
(* Properties of detect_harm's memoization (SpecHarm)                      *)
(***************************************************************************)

\* reload_if_changed has returned True: the index was rebuilt from the parsed
\* file, and no reload runs.
ReloadedTrue ==
    /\ loading.pc = "done"
    /\ loading.reloaded = "True"
    /\ ~loading.raised
    /\ loading.parsed # 0
    /\ harm_db.index = IndexFlatIP(loading.parsed, Len(PolicyFiles[loading.parsed].examples))
    /\ harm_db.harm_map = PolicyFiles[loading.parsed].examples

\* The classes a search of the index of db can be named with.
ClassesOf(db) == {"None"} \cup {db.harm_map[i] : i \in DOMAIN db.harm_map}

\* C29: a detect_harm call made after reload_if_changed returned True returns
\* a result computed against the new index and harm_map, also for a text that
\* was queried and memoized before the reload.
C29_ReloadedIndexAnswers ==
    [][(ReloadedTrue /\ harm_call'.n = harm_call.n + 1 /\ harm_call'.pc = "done")
         => harm_call'.result.failure_class \in ClassesOf(harm_db)]_vars


(***************************************************************************)
(* Properties of the SafeAgent (SpecAgent)                                 *)
(***************************************************************************)

\* C30: with max_steps = n, the k-th act call forwards its prompt to the
\* interceptor and returns status allowed if and only if k < n; the n-th and
\* every later call returns blocked with reason agent_step_exhaustion without
\* calling the interceptor, so no call after a blocked one is allowed.
C30_AllowedBelowMaxSteps ==
    \A k \in DOMAIN acts :
        /\ k < ctx.max_steps
              => /\ acts[k].forwarded = acts[k].prompt
                 /\ acts[k].status \in {"awaiting", "allowed"}
        /\ k >= ctx.max_steps
              => /\ acts[k].forwarded = 0
                 /\ acts[k].status = "blocked"
                 /\ acts[k].reason = "agent_step_exhaustion"
        /\ \A j \in 1..(k - 1) :
              acts[j].status = "blocked" => acts[k].status = "blocked"

\* C30, the case: an agent whose first calls were allowed and returned, and
\* which was then called twice more.
C30_Witness ==
    /\ ctx.max_steps >= 2
    /\ Len(acts) > ctx.max_steps
    /\ \A k \in 1..(ctx.max_steps - 1) : acts[k].status = "allowed"
    /\ acts[ctx.max_steps].status = "blocked"
    /\ acts[Len(acts)].status = "blocked"

====
